---------------------------- MODULE Spec2Model ----------------------------
(***************************************************************************)
(* A model of the image-to-album-list import pipeline of spotifyreviewer:  *)
(*   - src/utils/albumParser.ts   (line parser)                            *)
(*   - src/utils/ocrProcessor.ts  (OCR adapter)                            *)
(*   - src/app/review-builder/_components/ImageListImporter.tsx            *)
(*     (match resolver and import orchestrator)                            *)
(*                                                                         *)
(* A JavaScript string is modelled as a sequence of characters, each       *)
(* character a one-element TLA+ string.  Indices returned by indexOf are   *)
(* 0-based as in JavaScript, with -1 for "not found".  A value that is     *)
(* null/undefined or an object is modelled as a sequence of length 0 or 1. *)
(***************************************************************************)
EXTENDS Integers, Sequences, FiniteSets, TLC

VARIABLES
    \* ---- albumParser.ts: one run of parseAlbumsFromText
    text,       \* the raw OCR text handed to parseAlbumsFromText
    albums,     \* the ParsedAlbum[] it returned
    stage,      \* "text" before the call, "parsed" after it
    \* ---- ocrProcessor.ts: calls of processImageWithOCR, one at a time
    ocrPc,          \* where the current call is: "idle", "creating",
                    \* "recognizing", "terminating", "returned", "thrown"
    ocrCalls,       \* number of calls started
    workerCreated,  \* createWorker resolved during the current call
    terminateCalled,\* worker.terminate() was invoked during the current call
    liveWorkers,    \* workers created and never asked to terminate, all calls
    lastProgress,   \* <<>> or the last OCRProgress handed to onProgress
    ocrOutcome,     \* <<>>, or the OCRResult returned, or the Error thrown
    \* ---- ImageListImporter.tsx: one call of searchSpotifyAlbum(album)
    rsAlbum,        \* the candidate passed in
    rsPc,           \* "idle", "fetching" (a fetch is awaited), "done"
    rsIssued,       \* the query strings fetched so far, in order
    rsResponses,    \* the responses to them, in order
    rsReturn,       \* <<>> (null) or << SpotifyAlbum >>, once rsPc = "done"
    \* ---- ImageListImporter.tsx: the component's state
    selectedImage,  \* <<>> (null) or << image >>
    isProcessing,   \* useState flag
    ocrProgress,    \* <<>> (null) or << OCRProgress >>
    extractedText,  \* the raw OCR text kept for inspection
    parsedAlbums,   \* the candidate list: a sequence of references into heap
    showResults,    \* useState flag
    isSearching,    \* useState flag
    heap,           \* the MatchedAlbum objects, by reference
    allocated,      \* number of MatchedAlbum objects created so far
    view,           \* what the last committed render showed of each candidate
    processing,     \* <<>> or << image >>: the handleProcessImage call in flight
    batches,        \* the handleSearchAllAlbums calls in flight
    manuals,        \* the handleManualSearch calls in flight
    \* ---- history of the importer
    batchTrace,     \* start/settle/delay events of the batch in flight, in order
    batchLog,       \* per candidate of the batch in flight: what its search met
    batchAborted,   \* an exception left handleSearchAllAlbums
    expected,       \* per position: << text the user's last edit left >>, or <<>>
                    \* once a resolution of that position has started since
    \* ---- ReviewBuilderClient.tsx: the builder around the importer
    importedAlbums, \* the state importedAlbums of the builder
    importCalls,    \* how many times onImportComplete has been invoked
    \* ---- the extent of the exploration of the importer
    objLimit,       \* how many MatchedAlbum objects a behaviour may create (it never
                    \* changes)
    \* ---- albumParser.ts: cleanText applied to a string, and to its result
    cleanInput,     \* the string
    cleanPasses,    \* the results of the successive applications
    \* ---- albumParser.ts: one call of deduplicateAlbums
    dedupInput,     \* the ParsedAlbum[] passed in
    dedupOutput,    \* <<>> before the call returns, then << the array returned >>
    \* ---- ocrProcessor.ts: one call of detectTextColumnStart(ctx, width, height)
    detImage,       \* the image drawn on ctx, with its width and height
    detResult,      \* <<>> before the call ends, then << [kind, x100] >>: returned
                    \* (x100 = 100 * the x-offset) or thrown
    \* ---- ocrProcessor.ts: one iteration of the contrast loop of preprocessImage
    ctrPixel,       \* data[i], data[i + 1], data[i + 2] before the iteration
    ctrOut,         \* <<>> before the iteration, then << [clamped, r, g, b] >>: the
                    \* value of clamped and the three channels after it
    \* ---- albumParser.ts: one call of filterValidAlbums
    filterInput,    \* the ParsedAlbum[] passed in
    filterOutput,   \* <<>> before the call returns, then << the array returned >>
    \* ---- ImageListImporter.tsx: one call of isSimilar(str1, str2)
    simArgs,        \* << str1, str2 >>
    simResult,      \* <<>> before the call returns, then << the boolean returned >>
    \* ---- ImageListImporter.tsx: lines 83-97 of handleProcessImage on one OCR text
    pipeText,       \* result.text
    pipeOutput,     \* <<>> before line 96, then << the array passed to setParsedAlbums >>
    \* ---- tier board (TierMakerBoard.tsx)
    tiers,          \* the lanes: committed state with every queued setTiers applied
    tierView,       \* the tiers of the last render, which the handlers close over
    tierPc,         \* "loading", "ready" or "crashed"
    loadedAlbums,   \* the ids of the albums the playlist load put on the board
    staleEvents,    \* drag events handled since the last render
    \* ---- reviews.ts / tierLists.ts: addReview and addTierList
    txPc,           \* where the call is: "idle", "connect", "begin", "header", "album", "commit", "rollback", "done"
    txKind,         \* "review" (addReview) or "tierList" (addTierList)
    txInput,        \* input.albums.length
    txPos,          \* position of the album loop
    txId,           \* the id of the call (reviewId / tierListId)
    txPending,      \* rows written by the open transaction of the client
    txStore,        \* the committed rows, which a later read sees
    txConn,         \* the connection of the client: "none", "alive" or "lost"
    txHeld,         \* clients taken from the pool and not released
    txError,        \* the error the catch block caught, <<>> when none
    txOutcome,      \* <<>>, or how the call ended: returned or thrown (with the error)
    txInsertFailed  \* an INSERT of the call failed

parserVars == <<text, albums, stage>>
ocrVars == <<ocrPc, ocrCalls, workerCreated, terminateCalled, liveWorkers,
             lastProgress, ocrOutcome>>
resolverVars == <<rsAlbum, rsPc, rsIssued, rsResponses, rsReturn>>
importerVars == <<selectedImage, isProcessing, ocrProgress, extractedText, parsedAlbums,
                  showResults, isSearching, heap, allocated, view, processing, batches,
                  manuals, batchTrace, batchLog, batchAborted, expected>>
builderVars == <<importedAlbums, importCalls>>
limitVars == <<objLimit>>
cleanVars == <<cleanInput, cleanPasses>>
dedupVars == <<dedupInput, dedupOutput>>
detVars == <<detImage, detResult>>
ctrVars == <<ctrPixel, ctrOut>>
filterVars == <<filterInput, filterOutput>>
similarVars == <<simArgs, simResult>>
pipeVars == <<pipeText, pipeOutput>>
tierVars == <<tiers, tierView, tierPc, loadedAlbums, staleEvents>>
txVars == <<txPc, txKind, txInput, txPos, txId, txPending, txStore, txConn, txHeld, txError, txOutcome, txInsertFailed>>
pureVars == <<cleanVars, dedupVars, detVars, ctrVars, filterVars, similarVars, pipeVars, tierVars, txVars>>
vars == <<parserVars, ocrVars, resolverVars, importerVars, builderVars, limitVars, pureVars>>

\* what the actions of one part leave alone
notParser == <<ocrVars, resolverVars, importerVars, builderVars, limitVars, pureVars>>
notOcr == <<parserVars, resolverVars, importerVars, builderVars, limitVars, pureVars>>
notResolver == <<parserVars, ocrVars, importerVars, builderVars, limitVars, pureVars>>
notImporter == <<parserVars, ocrVars, resolverVars, builderVars, limitVars, pureVars>>
notBuilder == <<parserVars, ocrVars, resolverVars, limitVars, pureVars>>
coreVars == <<parserVars, ocrVars, resolverVars, importerVars, builderVars, limitVars>>

-----------------------------------------------------------------------------
(* Characters *)

Space  == " "
NL     == "\n"
CR     == "\r"
EnDash == "en-dash"
EmDash == "em-dash"

\* JavaScript \s and String.prototype.trim() white space (those the inputs use)
Whitespace == {Space, NL, CR, "\t"}
Digits     == {"0", "1", "2", "3", "4", "5", "6", "7", "8", "9"}

\* "ccc...c", n times
Rep(c, n) == [i \in 1..n |-> c]

-----------------------------------------------------------------------------
(* albumParser.ts *)

\* first index >= i of s whose character is not in C (Len(s)+1 when none)
SkipWhile(s, i, C) ==
    LET stops == {j \in i..Len(s) : s[j] \notin C}
    IN  IF stops # {} THEN CHOOSE j \in stops : \A h \in stops : j <= h
        ELSE IF i > Len(s) THEN i ELSE Len(s) + 1

\* last index <= i of s whose character is not in C (0 when none)
SkipBack(s, i, C) ==
    LET stops == {j \in 1..i : s[j] \notin C}
    IN  IF stops # {} THEN CHOOSE j \in stops : \A h \in stops : j >= h
        ELSE IF i < 1 THEN i ELSE 0

\* String.prototype.trim()
trim(s) == SubSeq(s, SkipWhile(s, 1, Whitespace), SkipBack(s, Len(s), Whitespace))

\* s.indexOf(d) searched from the 1-based position i on; 0-based result, -1 when absent
IndexFrom(s, d, i) ==
    LET hits == {j \in i..(Len(s) - Len(d) + 1) : SubSeq(s, j, j + Len(d) - 1) = d}
    IN  IF hits = {} THEN -1
        ELSE (CHOOSE j \in hits : \A h \in hits : j <= h) - 1

\* s.lastIndexOf(d): the split a "last occurrence" parser would use
LastIndexFrom(s, d, i) ==
    LET hits == {j \in 1..i : SubSeq(s, j, j + Len(d) - 1) = d}
    IN  IF hits = {} THEN -1
        ELSE (CHOOSE j \in hits : \A h \in hits : j >= h) - 1

lastIndexOf(s, d) == LastIndexFrom(s, d, Len(s) - Len(d) + 1)

\* String.prototype.indexOf
indexOf(s, d) == IndexFrom(s, d, 1)

\* s.substring(from) and s.substring(0, to), 0-based as in JavaScript
substringFrom(s, from) == SubSeq(s, from + 1, Len(s))
substringTo(s, to) == SubSeq(s, 1, to)

\* text.split('\n')
RECURSIVE splitLines(_)
splitLines(s) ==
    LET i == indexOf(s, <<NL>>)
    IN  IF i = -1 THEN <<s>>
        ELSE <<substringTo(s, i)>> \o splitLines(substringFrom(s, i + 1))

\* a parser whose enumeration pattern is /^\d+\.\s*/: it forgets the ')' form
stripEnumerationDotOnly(line) ==
    LET d == SkipWhile(line, 1, Digits)
    IN  IF d > 1 /\ d <= Len(line) /\ line[d] = "."
        THEN SubSeq(line, SkipWhile(line, d + 1, Whitespace), Len(line))
        ELSE line

\* line.replace(/^\d+[\.\)]\s*/, '')
stripEnumeration(line) ==
    LET d == SkipWhile(line, 1, Digits)
    IN  IF d > 1 /\ d <= Len(line) /\ line[d] \in {".", ")"}
        THEN SubSeq(line, SkipWhile(line, d + 1, Whitespace), Len(line))
        ELSE line

\* const delimiters = [' - ', ' – ', ' — ', '-', '–', '—', ': ', ' / ', ' | ']
delimiters ==
    << <<Space, "-", Space>>, <<Space, EnDash, Space>>, <<Space, EmDash, Space>>,
       <<"-">>, <<EnDash>>, <<EmDash>>,
       <<":", Space>>, <<Space, "/", Space>>, <<Space, "|", Space>> >>

\* the length limits of line 53
ArtistLimit == 100
AlbumLimit  == 200

\* a validation that lets a 100-character artist / 200-character album through
validLengthsInclusive(artist, album) ==
    /\ Len(artist) > 0 /\ Len(artist) <= ArtistLimit
    /\ Len(album) > 0 /\ Len(album) <= AlbumLimit

\* artist.length > 0 && artist.length < 100 && album.length > 0 && album.length < 200
validLengths(artist, album) ==
    /\ Len(artist) > 0 /\ Len(artist) < ArtistLimit
    /\ Len(album) > 0 /\ Len(album) < AlbumLimit

\* the body of "for (const delimiter of delimiters)", from the k-th delimiter on;
\* <<>> is the final "return null"
RECURSIVE tryDelimiters(_, _)
tryDelimiters(cleanLine, k) ==
    IF k > Len(delimiters) THEN <<>>
    ELSE LET delimiter == delimiters[k]
             delimiterIndex == indexOf(cleanLine, delimiter)
             artist == trim(substringTo(cleanLine, delimiterIndex))
             album == trim(substringFrom(cleanLine, delimiterIndex + Len(delimiter)))
         IN  IF delimiterIndex > 0 /\ validLengths(artist, album)
             THEN << [artist |-> artist, album |-> album] >>
             ELSE tryDelimiters(cleanLine, k + 1)

parseAlbumLine(line) == tryDelimiters(stripEnumeration(line), 1)

\* text.split('\n').map((line) => line.trim()).filter((line) => line.length > 0)
textLines(t) ==
    LET raw == splitLines(t)
    IN  SelectSeq([i \in 1..Len(raw) |-> trim(raw[i])], LAMBDA l : Len(l) > 0)

\* the loop of parseAlbumsFromText over lines[i..]; i is 1-based here, and the
\* lineNumber pushed is the source's (0-based i) + 1
RECURSIVE parseFrom(_, _)
parseFrom(lines, i) ==
    IF i > Len(lines) THEN <<>>
    ELSE LET parsed == parseAlbumLine(lines[i])
         IN  (IF parsed # <<>>
              THEN << [artist |-> parsed[1].artist, album |-> parsed[1].album,
                       lineNumber |-> i] >>
              ELSE <<>>) \o parseFrom(lines, i + 1)

parseAlbumsFromText(t) == parseFrom(textLines(t), 1)

-----------------------------------------------------------------------------
(* ocrProcessor.ts: processImageWithOCR (lines 16-43) *)

\* calls of processImageWithOCR in one run
MaxOcrCalls == 2

\* the engine's log messages m: status may be empty, progress may be missing (<<>>)
LoggerMessages ==
    [status : {"", "loading", "recognizing"}, progress : {<<>>, <<0>>, <<1>>}]

\* what worker.recognize can resolve to: result.data
RecognizedData ==
    [text : {<<>>, <<"x", "-", "y">>}, confidence : {0, 90}]

GenericOcrError ==
    [error |-> "Failed to extract text from image. Please try a clearer image."]

OcrInit ==
    /\ ocrPc = "idle"
    /\ ocrCalls = 0
    /\ workerCreated = FALSE
    /\ terminateCalled = FALSE
    /\ liveWorkers = 0
    /\ lastProgress = <<>>
    /\ ocrOutcome = <<>>

\* processImageWithOCR(imageFile, onProgress) is called: Tesseract.createWorker starts
OcrCall ==
    /\ ocrPc \in {"idle", "returned", "thrown"}
    /\ ocrCalls < MaxOcrCalls
    /\ ocrCalls' = ocrCalls + 1
    /\ ocrPc' = "creating"
    /\ workerCreated' = FALSE
    /\ terminateCalled' = FALSE
    /\ lastProgress' = <<>>
    /\ ocrOutcome' = <<>>
    /\ UNCHANGED liveWorkers
    /\ UNCHANGED notOcr

\* logger: (m) => { if (onProgress && m.status) onProgress({status, progress: m.progress || 0}) }
OcrLogger(m) ==
    /\ ocrPc \in {"creating", "recognizing"}
    /\ lastProgress' =
          IF m.status # ""
          THEN << [status |-> m.status,
                   progress |-> IF m.progress = <<>> THEN 0 ELSE m.progress[1]] >>
          ELSE lastProgress
    /\ UNCHANGED <<ocrPc, ocrCalls, workerCreated, terminateCalled, liveWorkers, ocrOutcome>>
    /\ UNCHANGED notOcr

\* await Tesseract.createWorker(...) resolves; worker.recognize(imageFile) starts
CreateWorkerOk ==
    /\ ocrPc = "creating"
    /\ workerCreated' = TRUE
    /\ liveWorkers' = liveWorkers + 1
    /\ ocrPc' = "recognizing"
    /\ UNCHANGED <<ocrCalls, terminateCalled, lastProgress, ocrOutcome>>
    /\ UNCHANGED notOcr

\* a catch block that rethrows what it caught
EngineError == [error |-> "engine error"]
OcrCatchRethrow ==
    /\ ocrPc' = "thrown"
    /\ ocrOutcome' = << EngineError >>

\* the catch block: console.error, then throw new Error('Failed to extract text ...')
OcrCatch ==
    /\ ocrPc' = "thrown"
    /\ ocrOutcome' = << GenericOcrError >>

\* await Tesseract.createWorker(...) rejects
CreateWorkerFail ==
    /\ ocrPc = "creating"
    /\ OcrCatch
    /\ UNCHANGED <<ocrCalls, workerCreated, terminateCalled, liveWorkers, lastProgress>>
    /\ UNCHANGED notOcr

\* await worker.recognize(imageFile) resolves; worker.terminate() is invoked
RecognizeOk(data) ==
    /\ ocrPc = "recognizing"
    /\ ocrOutcome' = << data >>
    /\ terminateCalled' = TRUE
    /\ liveWorkers' = liveWorkers - 1
    /\ ocrPc' = "terminating"
    /\ UNCHANGED <<ocrCalls, workerCreated, lastProgress>>
    /\ UNCHANGED notOcr

\* await worker.recognize(imageFile) rejects: control goes to the catch block
RecognizeFail ==
    /\ ocrPc = "recognizing"
    /\ OcrCatch
    /\ UNCHANGED <<ocrCalls, workerCreated, terminateCalled, liveWorkers, lastProgress>>
    /\ UNCHANGED notOcr

\* await worker.terminate() resolves: return { text, confidence }
TerminateOk ==
    /\ ocrPc = "terminating"
    /\ ocrPc' = "returned"
    /\ UNCHANGED <<ocrCalls, workerCreated, terminateCalled, liveWorkers, lastProgress,
                   ocrOutcome>>
    /\ UNCHANGED notOcr

\* await worker.terminate() rejects: control goes to the catch block
TerminateFail ==
    /\ ocrPc = "terminating"
    /\ OcrCatch
    /\ UNCHANGED <<ocrCalls, workerCreated, terminateCalled, liveWorkers, lastProgress>>
    /\ UNCHANGED notOcr

OcrNext ==
    \/ OcrCall
    \/ \E m \in LoggerMessages : OcrLogger(m)
    \/ CreateWorkerOk
    \/ CreateWorkerFail
    \/ \E data \in RecognizedData : RecognizeOk(data)
    \/ RecognizeFail
    \/ TerminateOk
    \/ TerminateFail


-----------------------------------------------------------------------------
(* String helpers of ImageListImporter.tsx *)

LowerLetters ==
    <<"a", "b", "c", "d", "e", "f", "g", "h", "i", "j", "k", "l", "m",
      "n", "o", "p", "q", "r", "s", "t", "u", "v", "w", "x", "y", "z">>
UpperLetters ==
    <<"A", "B", "C", "D", "E", "F", "G", "H", "I", "J", "K", "L", "M",
      "N", "O", "P", "Q", "R", "S", "T", "U", "V", "W", "X", "Y", "Z">>
LowerSet == {LowerLetters[i] : i \in 1..Len(LowerLetters)}

\* String.prototype.toLowerCase
toLowerCase(s) ==
    [i \in 1..Len(s) |->
        IF \E j \in 1..Len(UpperLetters) : UpperLetters[j] = s[i]
        THEN LowerLetters[CHOOSE j \in 1..Len(UpperLetters) : UpperLetters[j] = s[i]]
        ELSE s[i]]

\* s.replace(/\s+/g, ' '), from position i on
RECURSIVE collapseFrom(_, _)
collapseFrom(s, i) ==
    IF i > Len(s) THEN <<>>
    ELSE IF s[i] \in Whitespace
         THEN <<Space>> \o collapseFrom(s, SkipWhile(s, i, Whitespace))
         ELSE <<s[i]>> \o collapseFrom(s, i + 1)

collapseWhitespace(s) == collapseFrom(s, 1)

\* text.toLowerCase().replace(/[^a-z0-9\s]/g, '').replace(/\s+/g, ' ').trim()
normalizeText(t) ==
    trim(collapseWhitespace(
        SelectSeq(toLowerCase(t), LAMBDA c : c \in LowerSet \cup Digits \cup Whitespace)))

\* s.split(sep) for a non-empty separator
RECURSIVE split(_, _)
split(s, sep) ==
    LET i == indexOf(s, sep)
    IN  IF i = -1 THEN <<s>>
        ELSE <<substringTo(s, i)>> \o split(substringFrom(s, i + Len(sep)), sep)

\* a.includes(b)
includes(a, b) == indexOf(a, b) # -1

\* norm.split(' ').filter(w => w.length > 2)
longWords(norm) == SelectSeq(split(norm, <<Space>>), LAMBDA w : Len(w) > 2)

\* isSimilar (lines 117-134)
isSimilar(str1, str2) ==
    LET norm1 == normalizeText(str1)
        norm2 == normalizeText(str2)
        words1 == longWords(norm1)
        words2 == longWords(norm2)
        matchingWords ==
            SelectSeq(words1, LAMBDA w :
                \E j \in 1..Len(words2) : includes(words2[j], w) \/ includes(w, words2[j]))
        least == IF Len(words1) < Len(words2) THEN Len(words1) ELSE Len(words2)
    IN  IF norm1 = norm2 THEN TRUE
        ELSE IF includes(norm1, norm2) \/ includes(norm2, norm1) THEN TRUE
        ELSE IF Len(words1) = 0 \/ Len(words2) = 0 THEN FALSE
        ELSE 2 * Len(matchingWords) >= least

Punctuation == {"?", "!", ".", ",", ";", ":", "'", "\"", "(", ")", "[", "]", "{", "}"}

\* text.replace(/[?!.,;:'"()[\]{}]/g, ' ').replace(/\s+/g, ' ').trim()
cleanSearchQuery(t) ==
    trim(collapseWhitespace([i \in 1..Len(t) |-> IF t[i] \in Punctuation THEN Space ELSE t[i]]))

\* array.join(' ')
RECURSIVE joinFrom(_, _)
joinFrom(parts, i) ==
    IF i > Len(parts) THEN <<>>
    ELSE IF i = Len(parts) THEN parts[i]
    ELSE parts[i] \o <<Space>> \o joinFrom(parts, i + 1)

join(parts) == joinFrom(parts, 1)

-----------------------------------------------------------------------------
(* searchSpotifyAlbum (lines 144-198) *)

ArtistTag == <<"a", "r", "t", "i", "s", "t", ":">>
AlbumTag  == <<Space, "a", "l", "b", "u", "m", ":">>

\* a strategy list that tries the plain concatenation before the field-qualified query
searchStrategiesSwapped(album) ==
    LET cleanArtist == cleanSearchQuery(album.artist)
        cleanAlbum == cleanSearchQuery(album.album)
    IN  << cleanArtist \o <<Space>> \o cleanAlbum,
           ArtistTag \o cleanArtist \o AlbumTag \o cleanAlbum,
           ArtistTag \o cleanArtist \o <<Space>> \o cleanAlbum,
           cleanAlbum \o <<Space>> \o cleanArtist >>

\* const searchStrategies = [...]
searchStrategies(album) ==
    LET cleanArtist == cleanSearchQuery(album.artist)
        cleanAlbum == cleanSearchQuery(album.album)
    IN  << ArtistTag \o cleanArtist \o AlbumTag \o cleanAlbum,
           cleanArtist \o <<Space>> \o cleanAlbum,
           ArtistTag \o cleanArtist \o <<Space>> \o cleanAlbum,
           cleanAlbum \o <<Space>> \o cleanArtist >>

\* A result of the search route has artists (<<>> when it is no array, else
\* << names >>) and name (<<>> when missing, else << string >>).
resultArtist(result) == IF result.artists = <<>> THEN <<>> ELSE join(result.artists[1])
resultAlbum(result) == IF result.name = <<>> THEN <<>> ELSE result.name[1]

\* artistMatches && albumMatches
resultMatches(album, result) ==
    /\ isSimilar(album.artist, resultArtist(result))
    /\ isSimilar(album.album, resultAlbum(result))

\* the SpotifyAlbum returned for an accepted result (lines 177-187)
toSpotifyAlbum(result) ==
    [id |-> result.id,
     name |-> result.name,
     artists |-> IF result.artists = <<>>
                 THEN << <<"Unknown Artist">> >>
                 ELSE result.artists[1]]

\* a scan that keeps the last matching result of a response instead of the first
RECURSIVE lastMatch(_, _, _)
lastMatch(album, results, j) ==
    IF j < 1 THEN <<>>
    ELSE IF resultMatches(album, results[j]) THEN << toSpotifyAlbum(results[j]) >>
    ELSE lastMatch(album, results, j - 1)

\* "for (const result of results)" from the j-th result on: << SpotifyAlbum >>
\* of the first matching result, <<>> when the loop ends without a return
RECURSIVE firstMatchFrom(_, _, _)
firstMatchFrom(album, results, j) ==
    IF j > Len(results) THEN <<>>
    ELSE IF resultMatches(album, results[j]) THEN << toSpotifyAlbum(results[j]) >>
    ELSE firstMatchFrom(album, results, j + 1)

lastMatchOf(album, results) == lastMatch(album, results, Len(results))

firstMatch(album, results) == firstMatchFrom(album, results, 1)

\* searchSpotifyAlbum without its try/catch: a rejected fetch rejects the call
afterResponseNoCatch(album, k, resp) ==
    IF resp.kind = "throw"
    THEN [done |-> TRUE, value |-> <<>>, thrown |-> TRUE]
    ELSE LET found == IF resp.kind = "ok" THEN firstMatch(album, resp.albums) ELSE <<>>
         IN  IF found # <<>> THEN [done |-> TRUE, value |-> found, thrown |-> FALSE]
             ELSE IF k < Len(searchStrategies(album))
                  THEN [done |-> FALSE, value |-> <<>>, thrown |-> FALSE]
                  ELSE [done |-> TRUE, value |-> <<>>, thrown |-> FALSE]

\* What searchSpotifyAlbum does when the fetch of its k-th query settles with
\* resp: kind "throw" (fetch or response.json() rejects), "notOk" (!response.ok)
\* or "ok" with resp.albums = data.albums || [].
\*   done = TRUE : the function returns value (<<>> is null)
\*   done = FALSE: the loop goes on to fetch query k + 1
\*   thrown      : the call rejects (never: the catch block returns null)
afterResponse(album, k, resp) ==
    IF resp.kind = "throw"
    THEN [done |-> TRUE, value |-> <<>>, thrown |-> FALSE]
    ELSE LET found == IF resp.kind = "ok" THEN firstMatch(album, resp.albums) ELSE <<>>
         IN  IF found # <<>> THEN [done |-> TRUE, value |-> found, thrown |-> FALSE]
             ELSE IF k < Len(searchStrategies(album))
                  THEN [done |-> FALSE, value |-> <<>>, thrown |-> FALSE]
                  ELSE [done |-> TRUE, value |-> <<>>, thrown |-> FALSE]

\* The responses the search route can give.  r1 and r1b match the candidate
\* "ab" / "cde", r2 has another artist, r3 another title.  r4 has the title
\* "cde" and no artists array, r5 the artist "ab" and no name, r6 an empty
\* artists array.
SearchResults ==
    [r1  |-> [id |-> "id1", name |-> << <<"c", "d", "e">> >>, artists |-> << << <<"a", "b">> >> >>],
     r1b |-> [id |-> "id1b", name |-> << <<"C", "d", "e", "!">> >>, artists |-> << << <<"A", "b">> >> >>],
     r2  |-> [id |-> "id2", name |-> << <<"c", "d", "e">> >>, artists |-> << << <<"z", "z">> >> >>],
     r3  |-> [id |-> "id3", name |-> << <<"q", "q", "q">> >>, artists |-> << << <<"a", "b">> >> >>],
     r4  |-> [id |-> "id4", name |-> << <<"c", "d", "e">> >>, artists |-> <<>>],
     r5  |-> [id |-> "id5", name |-> <<>>, artists |-> << << <<"a", "b">> >> >>],
     r6  |-> [id |-> "id6", name |-> << <<"c", "d", "e">> >>, artists |-> << <<>> >>]]

Responses ==
    { [kind |-> "throw", albums |-> <<>>],
      [kind |-> "notOk", albums |-> <<>>],
      [kind |-> "ok", albums |-> <<>>],
      [kind |-> "ok", albums |-> <<SearchResults.r2, SearchResults.r3>>],
      [kind |-> "ok", albums |-> <<SearchResults.r2, SearchResults.r1, SearchResults.r1b>>],
      [kind |-> "ok", albums |-> <<SearchResults.r1b>>],
      [kind |-> "ok", albums |-> <<SearchResults.r4>>],
      [kind |-> "ok", albums |-> <<SearchResults.r3, SearchResults.r5>>],
      [kind |-> "ok", albums |-> <<SearchResults.r6>>] }

\* the candidates searchSpotifyAlbum is called with; the artist of the last
\* one has no letter or digit
ResolverCandidates ==
    { [artist |-> <<"a", "b">>, album |-> <<"c", "d", "e">>],
      [artist |-> <<"!", "!">>, album |-> <<"c", "d", "e">>],
      [artist |-> <<"A", "b", ".">>, album |-> <<"c", "d", "e", Space, "(", "x", ")">>],
      [artist |-> <<"z", "z">>, album |-> <<"q", "q", "q">>] }

ResolverInit ==
    /\ rsAlbum \in ResolverCandidates
    /\ rsPc = "idle"
    /\ rsIssued = <<>>
    /\ rsResponses = <<>>
    /\ rsReturn = <<>>

\* searchSpotifyAlbum(album) runs to its first await: the fetch of the first query
ResolverCall ==
    /\ rsPc = "idle"
    /\ rsPc' = "fetching"
    /\ rsIssued' = << searchStrategies(rsAlbum)[1] >>
    /\ UNCHANGED <<rsAlbum, rsResponses, rsReturn>>
    /\ UNCHANGED notResolver

\* the awaited fetch settles: return, or fetch the next query
ResolverResponse(resp) ==
    /\ rsPc = "fetching"
    /\ rsResponses' = Append(rsResponses, resp)
    /\ LET r == afterResponse(rsAlbum, Len(rsIssued), resp)
       IN  IF r.done
           THEN /\ rsPc' = "done"
                /\ rsReturn' = r.value
                /\ UNCHANGED rsIssued
           ELSE /\ rsIssued' = Append(rsIssued, searchStrategies(rsAlbum)[Len(rsIssued) + 1])
                /\ UNCHANGED <<rsPc, rsReturn>>
    /\ UNCHANGED rsAlbum
    /\ UNCHANGED notResolver

ResolverNext ==
    \/ ResolverCall
    \/ \E resp \in Responses : ResolverResponse(resp)

-----------------------------------------------------------------------------
(* albumParser.ts: cleaning, filtering, deduplication *)

Ellipsis == "ellipsis"

\* a replacement that leaves the replaced character behind its replacement
RECURSIVE replaceCharKeeping(_, _, _)
replaceCharKeeping(s, c, r) ==
    IF s = <<>> THEN <<>>
    ELSE (IF Head(s) = c THEN r \o <<c>> ELSE <<Head(s)>>) \o replaceCharKeeping(Tail(s), c, r)

\* s.replace(/<c>/g, r) for one character c and a replacement string r
RECURSIVE replaceChar(_, _, _)
replaceChar(s, c, r) ==
    IF s = <<>> THEN <<>>
    ELSE (IF Head(s) = c THEN r ELSE <<Head(s)>>) \o replaceChar(Tail(s), c, r)

\* s.replace(/[^\S\r\n]+/g, ' '): runs of white space other than \r and \n
RECURSIVE collapseBlanksFrom(_, _)
collapseBlanksFrom(s, i) ==
    IF i > Len(s) THEN <<>>
    ELSE IF s[i] \in Whitespace \ {NL, CR}
         THEN <<Space>> \o collapseBlanksFrom(s, SkipWhile(s, i, Whitespace \ {NL, CR}))
         ELSE <<s[i]>> \o collapseBlanksFrom(s, i + 1)

\* cleanText (lines 76-84); the character classes of lines 79 and 80 hold the
\* straight quote and the straight apostrophe, which they replace by themselves
cleanText(t) ==
    trim(collapseBlanksFrom(
        replaceChar(
            replaceChar(
                replaceChar(collapseWhitespace(t), "\"", <<"\"">>),
                "'", <<"'">>),
            Ellipsis, <<".", ".", ".">>),
        1))

cleanAlbumInfo(parsed) ==
    [artist |-> cleanText(parsed.artist),
     album |-> cleanText(parsed.album),
     lineNumber |-> parsed.lineNumber]

\* a key that forgets toLowerCase()
normalizeKeepingCase(t) ==
    trim(SelectSeq(t, LAMBDA c : c \in LowerSet \cup Digits))

\* text.toLowerCase().replace(/[^a-z0-9]/g, '').trim()
normalizeForComparison(t) ==
    trim(SelectSeq(toLowerCase(t), LAMBDA c : c \in LowerSet \cup Digits))

\* the loop of deduplicateAlbums from the i-th album on, with the keys seen so far
RECURSIVE dedupFrom(_, _, _)
dedupFrom(list, i, seen) ==
    IF i > Len(list) THEN <<>>
    ELSE LET key == normalizeForComparison(list[i].artist \o list[i].album)
         IN  IF key \notin seen
             THEN <<list[i]>> \o dedupFrom(list, i + 1, seen \cup {key})
             ELSE dedupFrom(list, i + 1, seen)

deduplicateAlbums(list) == dedupFrom(list, 1, {})

UpperSet == {UpperLetters[i] : i \in 1..Len(UpperLetters)}

\* the predicate of filterValidAlbums (lines 118-130)
isValidAlbum(album) ==
    LET combined == album.artist \o <<Space>> \o album.album
        letters == SelectSeq(combined, LAMBDA c : c \in LowerSet \cup UpperSet)
        special == SelectSeq(combined, LAMBDA c :
                       c \notin LowerSet \cup UpperSet \cup Digits \cup Whitespace
                                \cup {"-", "'", "/"})
    IN  IF Len(album.artist) < 2 \/ Len(album.album) < 2 THEN FALSE
        ELSE Len(letters) >= 5 /\ 10 * Len(special) < 3 * Len(combined)

filterValidAlbums(list) == SelectSeq(list, isValidAlbum)

\* a pipeline that deduplicates before it filters
importPipelineDedupFirst(t) ==
    LET parsed == parseAlbumsFromText(t)
        cleaned == [i \in 1..Len(parsed) |-> cleanAlbumInfo(parsed[i])]
    IN  filterValidAlbums(deduplicateAlbums(cleaned))

\* lines 85-88 of handleProcessImage
importPipeline(t) ==
    LET parsed == parseAlbumsFromText(t)
        cleaned == [i \in 1..Len(parsed) |-> cleanAlbumInfo(parsed[i])]
    IN  deduplicateAlbums(filterValidAlbums(cleaned))

-----------------------------------------------------------------------------
(* ImageListImporter.tsx: the import orchestrator *)

\* MatchedAlbum objects that can be created in one run
MaxObjs == 2
\* MatchedAlbum objects the heap has room for
MaxHeap == 3
\* handleManualSearch calls in flight at once
MaxManual == 1
\* handleSearchAllAlbums calls in flight at once (one, while the button is disabled)
MaxBatches == 2
\* asynchronous handlers (OCR runs, batches, manual searches) in flight at once
MaxInFlight == 2
\* clicks on "Import n Matched Albums" that hand albums to the builder
MaxImports == 1

Images == {"img1"}

Line1 == <<"a", "b", Space, "-", Space, "c", "d", "e">>
Line2 == <<"2", ".", Space, "z", "z", Space, "/", Space, "q", "q", "q">>

\* the texts OCR may read from an image
OcrTextOf(img) == {Line1, Line1 \o <<NL>> \o Line2}

\* a search result for the candidate of Line2
ResultForLine2 ==
    [id |-> "id4", name |-> << <<"q", "q", "q">> >>, artists |-> << << <<"z", "z">> >> >>]

\* what the search route may answer to a query of the importer
ImporterResponses ==
    { [kind |-> "throw", albums |-> <<>>],
      [kind |-> "notOk", albums |-> <<>>],
      [kind |-> "ok", albums |-> <<>>],
      [kind |-> "ok", albums |-> <<SearchResults.r2, SearchResults.r1, SearchResults.r1b,
                                   ResultForLine2>>] }

\* what the user may type into the artist or album input
EditValues == [artist |-> <<"z", "z">>, album |-> <<"q", "q", "q">>]

ProgressValues == {[status |-> "recognizing text", progress |-> 1]}

Objs == 1..MaxHeap

NoObject ==
    [artist |-> <<>>, album |-> <<>>, lineNumber |-> 0,
     matched |-> FALSE, searching |-> FALSE, spotifyData |-> <<>>]

\* the candidate rows a render puts on screen (lines 356-358: none unless
\* showResults && parsedAlbums.length > 0), the objects being as in h
RenderOf(show, list, h) ==
    IF show
    THEN [i \in 1..Len(list) |->
            [matched |-> h[list[i]].matched,
             searching |-> h[list[i]].searching,
             hasData |-> h[list[i]].spotifyData # <<>>]]
    ELSE <<>>

\* setParsedAlbums(<an array other than theirs>): no manual search's array is
\* the state any more
Disowned(ms) == [m \in 1..Len(ms) |-> [ms[m] EXCEPT !.owns = FALSE]]

RemoveAt(seq, n) == SubSeq(seq, 1, n - 1) \o SubSeq(seq, n + 1, Len(seq))

InFlight == Len(processing) + Len(batches) + Len(manuals)

NoExpectation == [i \in Objs |-> <<>>]

textOf(h, o) == [artist |-> h[o].artist, album |-> h[o].album]

\* what the running batch has done with one candidate of its list
NewLogEntry ==
    [attempted |-> FALSE, threw |-> FALSE, notOk |-> FALSE, settled |-> FALSE,
     matched |-> FALSE]

ImporterInit ==
    /\ selectedImage = <<>>
    /\ isProcessing = FALSE
    /\ ocrProgress = <<>>
    /\ extractedText = <<>>
    /\ parsedAlbums = <<>>
    /\ showResults = FALSE
    /\ isSearching = FALSE
    /\ heap = [o \in Objs |-> NoObject]
    /\ objLimit = MaxObjs
    /\ allocated = 0
    /\ view = <<>>
    /\ processing = <<>>
    /\ batches = <<>>
    /\ manuals = <<>>
    /\ batchTrace = <<>>
    /\ batchLog = <<>>
    /\ batchAborted = FALSE
    /\ expected = NoExpectation

\* the importer is followed until MaxImports handoffs have been made
ImportsLeft == importCalls < MaxImports

\* handleFileSelect / handlePaste with an image file
SelectImage(img) ==
    /\ ImportsLeft
    /\ selectedImage' = <<img>>
    /\ showResults' = FALSE
    /\ parsedAlbums' = <<>>
    /\ extractedText' = <<>>
    /\ manuals' = Disowned(manuals)
    /\ view' = <<>>
    /\ expected' = NoExpectation
    /\ UNCHANGED <<isProcessing, ocrProgress, isSearching, heap, allocated, processing,
                   batches, batchTrace, batchLog, batchAborted>>
    /\ UNCHANGED notImporter

\* handleProcessImage up to its first await (the button is disabled while isProcessing)
ProcessStart ==
    /\ ImportsLeft
    /\ selectedImage # <<>>
    /\ ~isProcessing
    /\ InFlight < MaxInFlight
    /\ isProcessing' = TRUE
    /\ ocrProgress' = <<>>
    /\ showResults' = FALSE
    /\ processing' = selectedImage
    /\ view' = RenderOf(showResults', parsedAlbums, heap)
    /\ UNCHANGED <<selectedImage, extractedText, parsedAlbums, isSearching, heap, allocated,
                   batches, manuals, batchTrace, batchLog, batchAborted, expected>>
    /\ UNCHANGED notImporter

\* the onProgress callback: setOcrProgress(progress)
ProcessProgress(progress) ==
    /\ ImportsLeft
    /\ processing # <<>>
    /\ ocrProgress' = <<progress>>
    /\ view' = RenderOf(showResults, parsedAlbums, heap)
    /\ UNCHANGED <<selectedImage, isProcessing, extractedText, parsedAlbums, showResults,
                   isSearching, heap, allocated, processing, batches, manuals, batchTrace,
                   batchLog, batchAborted, expected>>
    /\ UNCHANGED notImporter

\* preprocessImage and processImageWithOCR resolved with result.text = t:
\* lines 83-97, then the finally block
ProcessSucceed(t) ==
    /\ ImportsLeft
    /\ processing # <<>>
    /\ t \in OcrTextOf(processing[1])
    /\ LET list == importPipeline(t)
           n == Len(list)
       IN  /\ allocated + n <= objLimit
           /\ extractedText' = t
           /\ heap' = [o \in Objs |->
                         IF o \in (allocated + 1)..(allocated + n)
                         THEN [artist |-> list[o - allocated].artist,
                               album |-> list[o - allocated].album,
                               lineNumber |-> list[o - allocated].lineNumber,
                               matched |-> FALSE, searching |-> FALSE,
                               spotifyData |-> <<>>]
                         ELSE heap[o]]
           /\ parsedAlbums' = [i \in 1..n |-> allocated + i]
           /\ allocated' = allocated + n
    /\ showResults' = TRUE
    /\ isProcessing' = FALSE
    /\ ocrProgress' = <<>>
    /\ processing' = <<>>
    /\ manuals' = Disowned(manuals)
    /\ view' = RenderOf(showResults', parsedAlbums', heap')
    /\ expected' = NoExpectation
    /\ UNCHANGED <<selectedImage, isSearching, batches, batchTrace, batchLog, batchAborted>>
    /\ UNCHANGED notImporter

\* a handler whose catch block is not followed by a finally block
ProcessFailNoFinally ==
    /\ ImportsLeft
    /\ processing # <<>>
    /\ processing' = <<>>
    /\ view' = RenderOf(showResults, parsedAlbums, heap)
    /\ UNCHANGED <<selectedImage, isProcessing, ocrProgress, extractedText, parsedAlbums,
                   showResults, isSearching, heap, allocated, batches, manuals, batchTrace,
                   batchLog, batchAborted, expected>>
    /\ UNCHANGED notImporter

\* preprocessImage or processImageWithOCR rejected: the catch and finally blocks
ProcessFail ==
    /\ ImportsLeft
    /\ processing # <<>>
    /\ isProcessing' = FALSE
    /\ ocrProgress' = <<>>
    /\ processing' = <<>>
    /\ view' = RenderOf(showResults, parsedAlbums, heap)
    /\ UNCHANGED <<selectedImage, extractedText, parsedAlbums, showResults, isSearching,
                   heap, allocated, batches, manuals, batchTrace, batchLog, batchAborted,
                   expected>>
    /\ UNCHANGED notImporter

\* the candidate rows are on screen
ListShown == showResults /\ Len(parsedAlbums) > 0

\* a "Search All on Spotify" button without disabled={isSearching}
SearchAllEnabledAlways == ListShown

\* the "Search All on Spotify" button is rendered and not disabled
SearchAllEnabled == ListShown /\ ~isSearching

\* a settle that marks the candidate matched whatever the resolver returned
settledAsMatched(obj, value) ==
    [obj EXCEPT !.searching = FALSE, !.matched = TRUE, !.spotifyData = value]

\* updatedAlbums[i].searching = false; .matched = spotifyData !== null;
\* .spotifyData = spotifyData || undefined
settled(obj, value) ==
    [obj EXCEPT !.searching = FALSE, !.matched = (value # <<>>), !.spotifyData = value]

\* handleSearchAllAlbums up to the first await of searchSpotifyAlbum
StartBatch ==
    /\ ImportsLeft
    /\ SearchAllEnabled
    /\ Len(batches) < MaxBatches
    /\ InFlight < MaxInFlight
    /\ isSearching' = TRUE
    /\ LET updatedAlbums == parsedAlbums
       IN  /\ heap' = [heap EXCEPT ![updatedAlbums[1]].searching = TRUE]
           /\ parsedAlbums' = updatedAlbums
           /\ batches' = Append(batches,
                                [list |-> updatedAlbums, i |-> 1, k |-> 1, phase |-> "fetch"])
           /\ batchLog' = [j \in 1..Len(updatedAlbums) |->
                             [NewLogEntry EXCEPT !.attempted = (j = 1)]]
    /\ batchTrace' = << <<"start", 1>> >>
    /\ manuals' = Disowned(manuals)
    /\ view' = RenderOf(showResults, parsedAlbums', heap')
    /\ expected' = [expected EXCEPT ![1] = <<>>]
    /\ UNCHANGED <<selectedImage, isProcessing, ocrProgress, extractedText, showResults,
                   allocated, processing, batchAborted>>
    /\ UNCHANGED notImporter

\* the fetch awaited by the b-th batch settles with resp
BatchResponse(b, resp) ==
    /\ ImportsLeft
    /\ b \in 1..Len(batches)
    /\ batches[b].phase = "fetch"
    /\ LET bt == batches[b]
           obj == bt.list[bt.i]
           r == afterResponse(textOf(heap, obj), bt.k, resp)
           entry == [batchLog[bt.i] EXCEPT
                        !.threw = @ \/ resp.kind = "throw",
                        !.notOk = @ \/ resp.kind = "notOk"]
       IN  IF r.thrown
           THEN \* the rejection leaves handleSearchAllAlbums
                /\ batches' = RemoveAt(batches, b)
                /\ batchAborted' = TRUE
                /\ batchLog' = [batchLog EXCEPT ![bt.i] = entry]
                /\ UNCHANGED <<heap, parsedAlbums, manuals, view, batchTrace>>
           ELSE IF ~r.done
           THEN \* the loop fetches the next query
                /\ batches' = [batches EXCEPT ![b].k = bt.k + 1]
                /\ batchLog' = [batchLog EXCEPT ![bt.i] = entry]
                /\ UNCHANGED <<heap, parsedAlbums, manuals, view, batchTrace, batchAborted>>
           ELSE \* lines 211-217, then the await of the 300 ms timer
                /\ heap' = [heap EXCEPT ![obj] = settled(heap[obj], r.value)]
                /\ parsedAlbums' = bt.list
                /\ batches' = [batches EXCEPT ![b].phase = "delay"]
                /\ batchLog' = [batchLog EXCEPT ![bt.i] =
                                    [entry EXCEPT !.settled = TRUE,
                                                  !.matched = (r.value # <<>>)]]
                /\ batchTrace' = Append(batchTrace, <<"settle", bt.i>>)
                /\ manuals' = Disowned(manuals)
                /\ view' = RenderOf(showResults, parsedAlbums', heap')
                /\ UNCHANGED batchAborted
    /\ UNCHANGED <<selectedImage, isProcessing, ocrProgress, extractedText, showResults,
                   isSearching, allocated, processing, expected>>
    /\ UNCHANGED notImporter

\* the 300 ms timer of the b-th batch fires: the next candidate, or the end
BatchDelayElapsed(b) ==
    /\ ImportsLeft
    /\ b \in 1..Len(batches)
    /\ batches[b].phase = "delay"
    /\ LET bt == batches[b]
       IN  IF bt.i < Len(bt.list)
           THEN /\ heap' = [heap EXCEPT ![bt.list[bt.i + 1]].searching = TRUE]
                /\ parsedAlbums' = bt.list
                /\ batches' = [batches EXCEPT ![b].phase = "fetch",
                                              ![b].i = bt.i + 1, ![b].k = 1]
                /\ batchLog' = [batchLog EXCEPT ![bt.i + 1].attempted = TRUE]
                /\ batchTrace' = batchTrace \o << <<"delay", bt.i>>, <<"start", bt.i + 1>> >>
                /\ manuals' = Disowned(manuals)
                /\ expected' = [expected EXCEPT ![bt.i + 1] = <<>>]
                /\ UNCHANGED isSearching
           ELSE /\ isSearching' = FALSE
                /\ batches' = RemoveAt(batches, b)
                /\ batchLog' = <<>>
                /\ batchTrace' = <<>>
                /\ UNCHANGED <<heap, parsedAlbums, manuals, expected>>
    /\ view' = RenderOf(showResults, parsedAlbums', heap')
    /\ UNCHANGED <<selectedImage, isProcessing, ocrProgress, extractedText, showResults,
                   allocated, processing, batchAborted>>
    /\ UNCHANGED notImporter

\* the per-candidate search button of row index is rendered (lines 464-476)
ManualSearchShown(index) ==
    /\ ListShown
    /\ index \in 1..Len(view)
    /\ ~view[index].matched
    /\ ~view[index].searching

\* handleManualSearch(index) up to the first await of searchSpotifyAlbum
ManualStart(index) ==
    /\ ImportsLeft
    /\ ManualSearchShown(index)
    /\ Len(manuals) < MaxManual
    /\ InFlight < MaxInFlight
    /\ LET updatedAlbums == parsedAlbums
       IN  /\ heap' = [heap EXCEPT ![updatedAlbums[index]].searching = TRUE]
           /\ parsedAlbums' = updatedAlbums
           /\ manuals' = Append(Disowned(manuals),
                                [list |-> updatedAlbums, index |-> index, k |-> 1,
                                 owns |-> TRUE])
    /\ view' = RenderOf(showResults, parsedAlbums', heap')
    /\ expected' = [expected EXCEPT ![index] = <<>>]
    /\ UNCHANGED <<selectedImage, isProcessing, ocrProgress, extractedText, showResults,
                   isSearching, allocated, processing, batches, batchTrace, batchLog,
                   batchAborted>>
    /\ UNCHANGED notImporter

\* the fetch awaited by the m-th manual search settles with resp
ManualResponse(m, resp) ==
    /\ ImportsLeft
    /\ m \in 1..Len(manuals)
    /\ LET ms == manuals[m]
           obj == ms.list[ms.index]
           r == afterResponse(textOf(heap, obj), ms.k, resp)
       IN  IF r.thrown
           THEN /\ manuals' = RemoveAt(manuals, m)
                /\ UNCHANGED <<heap, parsedAlbums, view>>
           ELSE IF ~r.done
           THEN /\ manuals' = [manuals EXCEPT ![m].k = ms.k + 1]
                /\ UNCHANGED <<heap, parsedAlbums, view>>
           ELSE \* lines 230-234; setParsedAlbums(updatedAlbums) with the array that
                \* already is the state changes nothing and commits no render
                /\ heap' = [heap EXCEPT ![obj] = settled(heap[obj], r.value)]
                /\ parsedAlbums' = ms.list
                /\ manuals' = RemoveAt(IF ms.owns THEN manuals ELSE Disowned(manuals), m)
                /\ view' = IF ms.owns THEN view ELSE RenderOf(showResults, parsedAlbums', heap')
    /\ UNCHANGED <<selectedImage, isProcessing, ocrProgress, extractedText, showResults,
                   isSearching, allocated, processing, batches, batchTrace, batchLog,
                   batchAborted, expected>>
    /\ UNCHANGED notImporter

\* handleRemoveAlbum(index)
RemoveAlbum(index) ==
    /\ ImportsLeft
    /\ ListShown
    /\ index \in 1..Len(parsedAlbums)
    /\ parsedAlbums' = RemoveAt(parsedAlbums, index)
    /\ manuals' = Disowned(manuals)
    /\ view' = RenderOf(showResults, parsedAlbums', heap)
    /\ expected' = NoExpectation
    /\ UNCHANGED <<selectedImage, isProcessing, ocrProgress, extractedText, showResults,
                   isSearching, heap, allocated, processing, batches, batchTrace, batchLog,
                   batchAborted>>
    /\ UNCHANGED notImporter

\* the artist and album inputs of row index are rendered (lines 427-459)
EditShown(index) ==
    /\ ListShown
    /\ index \in 1..Len(view)
    /\ ~(view[index].matched /\ view[index].hasData)

\* { ...album, [field]: value, matched: false, spotifyData: undefined }
edited(album, field, value) ==
    [album EXCEPT ![field] = value, !.matched = FALSE, !.spotifyData = <<>>]

\* handleEditAlbum(index, field, value)
EditAlbum(index, field) ==
    /\ ImportsLeft
    /\ EditShown(index)
    /\ allocated < objLimit
    /\ heap[parsedAlbums[index]][field] # EditValues[field]
    /\ allocated' = allocated + 1
    /\ heap' = [heap EXCEPT ![allocated + 1] =
                   edited(heap[parsedAlbums[index]], field, EditValues[field])]
    /\ parsedAlbums' = [parsedAlbums EXCEPT ![index] = allocated + 1]
    /\ manuals' = Disowned(manuals)
    /\ view' = RenderOf(showResults, parsedAlbums', heap')
    /\ expected' = [expected EXCEPT ![index] = << textOf(heap', allocated + 1) >>]
    /\ UNCHANGED <<selectedImage, isProcessing, ocrProgress, extractedText, showResults,
                   isSearching, processing, batches, batchTrace, batchLog, batchAborted>>
    /\ UNCHANGED notImporter

\* the builder's useState<SpotifyAlbum[]>([])
BuilderInit ==
    /\ importedAlbums = <<>>
    /\ importCalls = 0

\* the "Import n Matched Albums" button is rendered (lines 357, 378: matchedCount > 0)
ImportShown == ListShown /\ \E i \in 1..Len(view) : view[i].matched

\* a handoff list in reverse list order
matchedAlbumsReversed(list, h) ==
    LET kept == SelectSeq(list, LAMBDA o : h[o].matched /\ h[o].spotifyData # <<>>)
    IN  [i \in 1..Len(kept) |-> h[kept[Len(kept) + 1 - i]].spotifyData[1]]

\* parsedAlbums.filter((album) => album.matched && album.spotifyData)
\*             .map((album) => album.spotifyData!)
matchedAlbumsOf(list, h) ==
    LET kept == SelectSeq(list, LAMBDA o : h[o].matched /\ h[o].spotifyData # <<>>)
    IN  [i \in 1..Len(kept) |-> h[kept[i]].spotifyData[1]]

\* handleImportMatched, and handleImageImport when it is called
ImportMatched ==
    /\ ImportsLeft
    /\ ImportShown
    /\ LET matchedAlbums == matchedAlbumsOf(parsedAlbums, heap)
       IN  IF Len(matchedAlbums) = 0
           THEN UNCHANGED builderVars
           ELSE /\ importedAlbums' = matchedAlbums
                /\ importCalls' = importCalls + 1
    /\ UNCHANGED importerVars
    /\ UNCHANGED notBuilder

ImporterNext ==
    \/ ImportMatched
    \/ \E img \in Images : SelectImage(img)
    \/ ProcessStart
    \/ \E progress \in ProgressValues : ProcessProgress(progress)
    \/ \E t \in UNION {OcrTextOf(img) : img \in Images} : ProcessSucceed(t)
    \/ ProcessFail
    \/ StartBatch
    \/ \E b \in 1..MaxBatches, resp \in ImporterResponses : BatchResponse(b, resp)
    \/ \E b \in 1..MaxBatches : BatchDelayElapsed(b)
    \/ \E index \in Objs : ManualStart(index)
    \/ \E m \in 1..MaxManual, resp \in ImporterResponses : ManualResponse(m, resp)
    \/ \E index \in Objs : RemoveAlbum(index)
    \/ \E index \in Objs, field \in {"artist", "album"} : EditAlbum(index, field)

-----------------------------------------------------------------------------
(* The parser's inputs: OCR lines assembled from an optional enumeration    *)
(* prefix, up to three words and up to two delimiters.                      *)

\* longest short word
MaxWordLen == 1

DelimiterSet == {delimiters[k] : k \in 1..Len(delimiters)}
Prefixes == { <<>>, <<"1", ".">>, <<"1", "2", ")", Space>>, <<"7">> }

ShortLines ==
    { p \o w1 \o d1 \o w2 \o d2 \o w3 :
        p \in Prefixes,
        w1 \in {Rep("x", n) : n \in 0..MaxWordLen},
        d1 \in DelimiterSet \cup {<<>>},
        w2 \in {Rep("y", n) : n \in 0..MaxWordLen},
        d2 \in DelimiterSet \cup {<<>>},
        w3 \in {Rep("z", n) : n \in 0..MaxWordLen} }

\* word lengths on both sides of each length limit
LimitLens == {1, ArtistLimit - 1, ArtistLimit, AlbumLimit - 1, AlbumLimit}
LongDelimiters == { delimiters[1], delimiters[4], delimiters[7] }

LongLines ==
    { w1 \o d1 \o w2 \o d2 \o w3 :
        w1 \in {Rep("x", n) : n \in LimitLens},
        d1 \in LongDelimiters,
        w2 \in {Rep("y", n) : n \in LimitLens},
        d2 \in LongDelimiters \cup {<<>>},
        w3 \in {<<>>, <<"z">>} }

\* lines of a text of several lines
MaxLines == 3

\* a blank line, a line that yields a candidate, a line that yields none
LineKinds == { <<>>, <<"x", "-", "y">>, <<"z">> }

RECURSIVE joinLines(_)
joinLines(ls) ==
    IF Len(ls) = 0 THEN <<>>
    ELSE IF Len(ls) = 1 THEN ls[1]
    ELSE ls[1] \o <<NL>> \o joinLines(Tail(ls))

MultiLineTexts ==
    { joinLines(ls) : ls \in UNION { [1..n -> LineKinds] : n \in 2..MaxLines } }

Texts == ShortLines \cup LongLines \cup MultiLineTexts

ParserInit ==
    /\ text \in Texts
    /\ albums = <<>>
    /\ stage = "text"

\* let albums = parseAlbumsFromText(result.text)
ParseText ==
    /\ stage = "text"
    /\ albums' = parseAlbumsFromText(text)
    /\ stage' = "parsed"
    /\ UNCHANGED text
    /\ UNCHANGED notParser

ParserNext == ParseText

-----------------------------------------------------------------------------
(* cleanText on its own: the strings it is applied to *)

\* longest string handed to cleanText
MaxCleanLen == 4

LeftDoubleQuote == "left-double-quote"
RightSingleQuote == "right-single-quote"

CleanChars == {Space, NL, "\t", "a", "\"", Ellipsis, LeftDoubleQuote, RightSingleQuote}

CleanInputs == UNION { [1..n -> CleanChars] : n \in 0..MaxCleanLen }

CleanInit ==
    /\ cleanInput \in CleanInputs
    /\ cleanPasses = <<>>

\* cleanText(text), then cleanText of what it returned
CleanPass ==
    /\ Len(cleanPasses) < 2
    /\ cleanPasses' = Append(cleanPasses,
                             cleanText(IF cleanPasses = <<>> THEN cleanInput
                                       ELSE cleanPasses[Len(cleanPasses)]))
    /\ UNCHANGED cleanInput
    /\ UNCHANGED <<coreVars, dedupVars, detVars, ctrVars, filterVars, similarVars, pipeVars, tierVars, txVars>>

CleanNext == CleanPass

-----------------------------------------------------------------------------
(* deduplicateAlbums on its own: the lists it is applied to *)

\* longest list handed to deduplicateAlbums
MaxDedupLen == 3

DedupAlbums ==
    { [artist |-> <<"a", "b">>, album |-> <<"c">>],
      [artist |-> <<"A", "B">>, album |-> <<"C">>],
      [artist |-> <<"a">>, album |-> <<"b", Space, "c", "!">>],
      [artist |-> <<"x">>, album |-> <<"1">>],
      [artist |-> <<"X", ".">>, album |-> <<"-", "1">>],
      [artist |-> <<"!">>, album |-> <<"?">>] }

\* the albums carry the lineNumber the parser gave them, here their position
numbered(f) ==
    [i \in 1..Len(f) |-> [artist |-> f[i].artist, album |-> f[i].album, lineNumber |-> i]]

DedupInputs ==
    { numbered(f) : f \in UNION { [1..n -> DedupAlbums] : n \in 0..MaxDedupLen } }

DedupInit ==
    /\ dedupInput \in DedupInputs
    /\ dedupOutput = <<>>

\* deduplicateAlbums(albums)
DedupCall ==
    /\ dedupOutput = <<>>
    /\ dedupOutput' = << deduplicateAlbums(dedupInput) >>
    /\ UNCHANGED dedupInput
    /\ UNCHANGED <<coreVars, cleanVars, detVars, ctrVars, filterVars, similarVars, pipeVars, tierVars, txVars>>

DedupNext == DedupCall

-----------------------------------------------------------------------------
(* ocrProcessor.ts: detectTextColumnStart (lines 49-126)                    *)
(* Numbers with a fraction are kept as integers over a fixed denominator:   *)
(* a saturation as SatScale * saturation, an x-offset as 100 * x.           *)

stripWidth == 10
numBands == 5

\* denominator of the saturations: every saturation of the images below is a
\* whole number of 1/SatScale
SatScale == 4 * 255

Max2(a, b) == IF a >= b THEN a ELSE b
Min2(a, b) == IF a <= b THEN a ELSE b

\* a pixel outside the canvas reads as transparent black
TransparentBlack == [r |-> 0, g |-> 0, b |-> 0]

\* the pixel of img at column x, row y (0-based)
pixelAt(img, x, y) ==
    IF x < 0 \/ x >= img.width \/ y < 0 \/ y >= img.height THEN TransparentBlack
    ELSE IF y < img.topRows THEN img.top[(x \div stripWidth) + 1]
    ELSE img.rest[(x \div stripWidth) + 1]

\* ctx.getImageData(x, y, sw, sh): IndexSizeError when sw or sh is zero, else
\* the sw * sh pixels of the region, row by row
getImageData(img, x, y, sw, sh) ==
    IF sw = 0 \/ sh = 0 THEN [thrown |-> TRUE, data |-> <<>>]
    ELSE [thrown |-> FALSE,
          data |-> [i \in 1..(sw * sh) |->
                       pixelAt(img, x + ((i - 1) % sw), y + ((i - 1) \div sw))]]

\* lines 74-81 for one pixel: is it counted, and SatScale * its saturation
pixelMax(px) == Max2(px.r, Max2(px.g, px.b))
pixelMin(px) == Min2(px.r, Min2(px.g, px.b))
saturation(px) ==
    IF pixelMax(px) = 0 THEN 0
    ELSE ((pixelMax(px) - pixelMin(px)) * SatScale) \div pixelMax(px)
\* brightness > 30 && saturation > 0.1
isColored(px) ==
    /\ px.r + px.g + px.b > 3 * 30
    /\ pixelMax(px) # 0
    /\ 10 * (pixelMax(px) - pixelMin(px)) > pixelMax(px)

RECURSIVE sumSeq(_)
sumSeq(q) == IF q = <<>> THEN 0 ELSE Head(q) + sumSeq(Tail(q))

\* colorScore of one strip of one band, times SatScale * pixelCount
\* (pixelCount is stripWidth * bandHeight for every strip of an image)
colorScore(data) ==
    LET colored == SelectSeq(data, isColored)
        coloredPixels == Len(colored)
        totalSaturation == sumSeq([i \in 1..Len(colored) |-> saturation(colored[i])])
    IN  (coloredPixels * totalSaturation) \div Max2(coloredPixels, 1)

bandHeightOf(height) == height \div numBands

\* the start columns of the strips: for (let x = 0; x < width; x += stripWidth)
stripStarts(width) ==
    [i \in 1..((width + stripWidth - 1) \div stripWidth) |-> (i - 1) * stripWidth]

\* does a getImageData of the sampling loops throw
samplingThrows(img) ==
    \E band \in 0..(numBands - 1), i \in 1..Len(stripStarts(img.width)) :
        getImageData(img, stripStarts(img.width)[i], band * bandHeightOf(img.height),
                     stripWidth, bandHeightOf(img.height)).thrown

\* allColorfulness[band][i], bands and strips 1-based here
allColorfulness(img) ==
    [band \in 1..numBands |->
        [i \in 1..Len(stripStarts(img.width)) |->
            colorScore(getImageData(img, stripStarts(img.width)[i],
                                    (band - 1) * bandHeightOf(img.height),
                                    stripWidth, bandHeightOf(img.height)).data)]]

\* avgColorfulness[i] times numBands
avgColorfulness(img) ==
    LET all == allColorfulness(img)
    IN  [i \in 1..Len(all[1]) |-> sumSeq([band \in 1..numBands |-> all[band][i]])]

RECURSIVE maxSeq(_)
maxSeq(q) == IF Len(q) = 1 THEN q[1] ELSE Max2(Head(q), maxSeq(Tail(q)))

\* avgColorfulness[i] > maxColor * 0.08
aboveThreshold(v, maxColor) == 100 * v > 8 * maxColor

\* the loop of lines 104-109 from strip i on (0-based strip numbers as in the source)
RECURSIVE lastColorfulFrom(_, _, _, _)
lastColorfulFrom(avg, maxColor, i, last) ==
    IF i >= Len(avg) THEN last
    ELSE lastColorfulFrom(avg, maxColor, i + 1,
                          IF aboveThreshold(avg[i + 1], maxColor) THEN i ELSE last)

\* a sanity check with an exclusive lower end
outsideRangeStrict(textStartX, width) ==
    100 * textStartX <= 40 * width \/ 100 * textStartX > 75 * width

\* textStartX < width * 0.40 || textStartX > width * 0.75
outsideRange(textStartX, width) ==
    100 * textStartX < 40 * width \/ 100 * textStartX > 75 * width

\* lines 100-125: 100 * the x-offset returned
textColumnStart(img) ==
    LET avg == avgColorfulness(img)
        maxColor == maxSeq(avg)
        lastColorfulStrip == lastColorfulFrom(avg, maxColor, 0, 0)
        textStartX == (lastColorfulStrip + 1) * stripWidth
    IN  IF outsideRange(textStartX, img.width) THEN 55 * img.width
        ELSE 100 * textStartX

(* the images: each 10-pixel column of strips has one colour in the rows of  *)
(* the first band and one colour in the rows below                           *)

Gray    == [r |-> 128, g |-> 128, b |-> 128]
Red     == [r |-> 255, g |-> 0, b |-> 0]
Faint   == [r |-> 100, g |-> 85, b |-> 85]
Pale    == [r |-> 200, g |-> 180, b |-> 180]
DarkRed == [r |-> 60, g |-> 0, b |-> 0]

TopColours == {Gray, Red, Faint, Pale, DarkRed}
RestColours == {Gray, Red, Faint}

BandedWidths == {5, 14, 20, 25, 30}
UniformWidths == {40}
Heights == {4, 7}

imageOf(w, h, top, rest) ==
    [width |-> w, height |-> h, topRows |-> bandHeightOf(h), top |-> top, rest |-> rest]

DetectImages ==
    UNION { { imageOf(w, h, top, rest) :
                top \in [1..Len(stripStarts(w)) -> TopColours],
                rest \in [1..Len(stripStarts(w)) -> RestColours] } :
            w \in BandedWidths, h \in Heights }
    \cup UNION { { imageOf(w, h, c, c) : c \in [1..Len(stripStarts(w)) -> RestColours] } :
                 w \in UniformWidths, h \in Heights }

DetectInit ==
    /\ detImage \in { <<img>> : img \in DetectImages }
    /\ detResult = <<>>

\* a getImageData of the sampling loops throws
DetectThrow ==
    /\ detResult = <<>>
    /\ samplingThrows(detImage[1])
    /\ detResult' = << [kind |-> "thrown", x100 |-> 0] >>
    /\ UNCHANGED detImage
    /\ UNCHANGED <<coreVars, cleanVars, dedupVars, ctrVars, filterVars, similarVars, pipeVars, tierVars, txVars>>

\* the call runs to "return textStartX"
DetectReturn ==
    /\ detResult = <<>>
    /\ ~samplingThrows(detImage[1])
    /\ detResult' = << [kind |-> "returned", x100 |-> textColumnStart(detImage[1])] >>
    /\ UNCHANGED detImage
    /\ UNCHANGED <<coreVars, cleanVars, dedupVars, ctrVars, filterVars, similarVars, pipeVars, tierVars, txVars>>

DetectNext == DetectThrow \/ DetectReturn

-----------------------------------------------------------------------------
(* ocrProcessor.ts: the contrast loop of preprocessImage (lines 194-206)    *)
(* A number with a fraction is a record [num, den] with den > 0.            *)

contrast == 2

\* (259 * (contrast + 255)) / (255 * (259 - contrast))
factor == [num |-> 259 * (contrast + 255), den |-> 255 * (259 - contrast)]

\* (data[i] + data[i + 1] + data[i + 2]) / 3
avgOf(px) == [num |-> px.r + px.g + px.b, den |-> 3]

\* factor * (avg - 128) + 128
adjusted(avg) ==
    [num |-> factor.num * (avg.num - 128 * avg.den) + 128 * factor.den * avg.den,
     den |-> factor.den * avg.den]

\* a clamp with no upper end: Math.max(0, adjusted)
clampedBelowOnly(q) == IF q.num < 0 THEN [num |-> 0, den |-> 1] ELSE q

\* Math.max(0, Math.min(255, adjusted))
clamped(q) ==
    IF q.num > 255 * q.den THEN [num |-> 255, den |-> 1]
    ELSE IF q.num < 0 THEN [num |-> 0, den |-> 1]
    ELSE q

\* a store into the Uint8ClampedArray data: clamp to 0..255, round to the
\* nearest integer, a tie to the even one
toUint8Clamped(q) ==
    IF q.num <= 0 THEN 0
    ELSE IF q.num >= 255 * q.den THEN 255
    ELSE LET lower == q.num \div q.den
             rest == q.num % q.den
         IN  IF 2 * rest < q.den THEN lower
             ELSE IF 2 * rest > q.den THEN lower + 1
             ELSE IF lower % 2 = 0 THEN lower ELSE lower + 1

ChannelValues == {0, 1, 2, 127, 128, 253, 255}
ContrastPixels == [r : ChannelValues, g : ChannelValues, b : ChannelValues]

ContrastInit ==
    /\ ctrPixel \in { <<px>> : px \in ContrastPixels }
    /\ ctrOut = <<>>

\* one iteration of the loop of lines 194-206
ContrastPixel ==
    /\ ctrOut = <<>>
    /\ LET value == clamped(adjusted(avgOf(ctrPixel[1])))
       IN  ctrOut' = << [clamped |-> value,
                         r |-> toUint8Clamped(value),
                         g |-> toUint8Clamped(value),
                         b |-> toUint8Clamped(value)] >>
    /\ UNCHANGED ctrPixel
    /\ UNCHANGED <<coreVars, cleanVars, dedupVars, detVars, filterVars, similarVars, pipeVars, tierVars, txVars>>

ContrastNext == ContrastPixel

-----------------------------------------------------------------------------
(* filterValidAlbums on its own: lists of candidates whose fields mix        *)
(* letters, digits, the allowed marks and other characters.                  *)

MaxFilterLen == 2

FilterArtists ==
    { <<"a">>, <<"a", "b">>, <<"a", "b", "!">>, <<"1", "-">>, <<"A", "!">> }
FilterTitles ==
    { <<"c">>, <<"c", "d">>, <<"c", "d", "e">>,
      <<"c", "d", "e", "!", "!">>, <<"c", "d", "e", "f", "!", "!">>,
      <<"c", "d", "e", "f", "?", "'">>, <<"C", Space, "/", "2", "d", "e">> }

FilterInputs ==
    { numbered(f) :
        f \in UNION { [1..n -> [artist : FilterArtists, album : FilterTitles]] :
                      n \in 0..MaxFilterLen } }

FilterInit ==
    /\ filterInput \in FilterInputs
    /\ filterOutput = <<>>

\* filterValidAlbums(albums)
FilterCall ==
    /\ filterOutput = <<>>
    /\ filterOutput' = << filterValidAlbums(filterInput) >>
    /\ UNCHANGED filterInput
    /\ UNCHANGED <<coreVars, cleanVars, dedupVars, detVars, ctrVars, similarVars, pipeVars, tierVars, txVars>>

FilterNext == FilterCall

-----------------------------------------------------------------------------
(* isSimilar on its own: pairs of strings of up to MaxSimWords1 and          *)
(* MaxSimWords2 words.                                                       *)

MaxSimWords1 == 4
MaxSimWords2 == 3

SimWords1 == { <<"a", "b", "c">>, <<"x", "y", "z">>, <<"a", "b">> }
SimWords2 == { <<"a", "b", "c">>, <<"d", "d", "d">>, <<"A", ".", "b", "c", "d">> }

SimStrings(words, n) ==
    { join(f) : f \in UNION { [1..k -> words] : k \in 1..n } }

SimilarInit ==
    /\ simArgs \in { <<s1, s2>> : s1 \in SimStrings(SimWords1, MaxSimWords1),
                                 s2 \in SimStrings(SimWords2, MaxSimWords2) }
                  \cup { <<s2, s1>> : s1 \in SimStrings(SimWords1, MaxSimWords1),
                                      s2 \in SimStrings(SimWords2, MaxSimWords2) }
    /\ simResult = <<>>

\* isSimilar(str1, str2)
SimilarCall ==
    /\ simResult = <<>>
    /\ simResult' = << isSimilar(simArgs[1], simArgs[2]) >>
    /\ UNCHANGED simArgs
    /\ UNCHANGED <<coreVars, cleanVars, dedupVars, detVars, ctrVars, filterVars, pipeVars, tierVars, txVars>>

SimilarNext == SimilarCall

-----------------------------------------------------------------------------
(* The stages of an import run on their own: OCR texts of up to             *)
(* MaxPipeLines lines, some of them invalid or duplicates of each other.     *)

MaxPipeLines == 3

PipeLines ==
    { <<"a", "b", Space, "-", Space, "c", "d", "e">>,
      <<"a", "!", "b", "!", Space, "-", Space, "c", "!", "d", "e">>,
      <<"A", "B", Space, "-", Space, "C", "D", "E">>,
      <<"1", ".", Space, "a", "b", Space, "-", Space, "c", "\t", "\t", "d", "e">>,
      <<"x", Space, "-", Space, "y">>,
      <<"j", "u", "n", "k">> }

PipeTexts == { joinLines(f) : f \in UNION { [1..n -> PipeLines] : n \in 0..MaxPipeLines } }

PipelineInit ==
    /\ pipeText \in PipeTexts
    /\ pipeOutput = <<>>

\* lines 90-94: albums.map((album) => ({ ...album, matched: false, searching: false }))
asMatchedAlbums(list) ==
    [i \in 1..Len(list) |->
        [artist |-> list[i].artist, album |-> list[i].album,
         lineNumber |-> list[i].lineNumber,
         matched |-> FALSE, searching |-> FALSE, spotifyData |-> <<>>]]

\* lines 85-96 of handleProcessImage
PipelineRun ==
    /\ pipeOutput = <<>>
    /\ pipeOutput' = << asMatchedAlbums(importPipeline(pipeText)) >>
    /\ UNCHANGED pipeText
    /\ UNCHANGED <<coreVars, cleanVars, dedupVars, detVars, ctrVars, filterVars, similarVars, tierVars, txVars>>

PipelineNext == PipelineRun

-----------------------------------------------------------------------------
(* TierMakerBoard.tsx: the lanes of the tier board and its drag handlers *)

\* albums on the board
MaxAlbums == 3
\* drag events handled between two renders
MaxStale == 2

\* Object.keys(tiers), in the order createEmptyTierState sets the keys
TierKeys == <<"unranked", "s", "a", "b", "c">>
TierIds == {TierKeys[i] : i \in 1..Len(TierKeys)}
AlbumIds == <<"x", "y", "z", "v", "w">>

\* A lane is a sequence of entries.  An entry is << album >>, or <<>> for the
\* value undefined; an album is its id and its tier field.
createEmptyTierState == [k \in TierIds |-> <<>>]

\* mappedAlbums for a playlist of n distinct albums: tier: 'unranked'
mappedAlbums(n) == [i \in 1..n |-> << [id |-> AlbumIds[i], tier |-> "unranked"] >>]

\* positions of list whose entry has the id / is undefined
idPositions(list, id) == {i \in 1..Len(list) : list[i] # <<>> /\ list[i][1].id = id}
undefinedPositions(list) == {i \in 1..Len(list) : list[i] = <<>>}
hasUndefined(t) == \E k \in TierIds : undefinedPositions(t[k]) # {}

\* list.findIndex((album) => album.id === id): 0-based, -1 when absent
findIndexById(list, id) ==
    LET hits == idPositions(list, id)
    IN  IF hits = {} THEN -1 ELSE (CHOOSE i \in hits : \A h \in hits : i <= h) - 1

\* the callback reads album.id of an undefined entry before it finds the id
findIndexThrows(list, id) ==
    \E u \in undefinedPositions(list) : \A i \in idPositions(list, id) : u < i

\* findContainerByItemId against the tiers t of a render: << lane >> or <<>> (null)
findContainerByItemId(t, itemId) ==
    IF itemId \in TierIds THEN << itemId >>
    ELSE LET holding == {i \in 1..Len(TierKeys) : idPositions(t[TierKeys[i]], itemId) # {}}
         IN  IF holding = {} THEN <<>>
             ELSE << TierKeys[CHOOSE i \in holding : \A h \in holding : i <= h] >>

removeAt(list, i) == SubSeq(list, 1, i - 1) \o SubSeq(list, i + 1, Len(list))
insertAt(list, i, e) == SubSeq(list, 1, i - 1) \o <<e>> \o SubSeq(list, i, Len(list))

\* an arrayMove that leaves the array alone when from is not an index of it
arrayMoveChecked(array, from, to) ==
    IF from >= Len(array) THEN array
    ELSE LET rest == removeAt(array, from + 1)
             at == IF to > Len(rest) THEN Len(rest) ELSE to
         IN  insertAt(rest, at + 1, array[from + 1])

\* arrayMove of @dnd-kit/sortable, for from >= 0 and to >= 0:
\*   newArray = array.slice(); newArray.splice(to, 0, newArray.splice(from, 1)[0])
\* splice(from, 1) of an index past the end removes nothing and [0] of its
\* result is undefined; splice(to, ...) past the end inserts at the end
arrayMove(array, from, to) ==
    LET present == from < Len(array)
        rest == IF present THEN removeAt(array, from + 1) ELSE array
        item == IF present THEN array[from + 1] ELSE <<>>
        at == IF to > Len(rest) THEN Len(rest) ELSE to
    IN  insertAt(rest, at + 1, item)

\* a drag-over updater that inserts the album without taking it out of its lane
dragOverUpdaterCopying(prev, activeContainer, overContainer, activeId, overId) ==
    LET activeItems == prev[activeContainer]
        overItems == prev[overContainer]
        activeIndex == findIndexById(activeItems, activeId)
        overIndex == findIndexById(overItems, overId)
        insertionIndex == IF overIndex >= 0 THEN overIndex ELSE Len(overItems)
    IN  IF findIndexThrows(activeItems, activeId) THEN [throws |-> TRUE, value |-> prev]
        ELSE IF activeIndex < 0 THEN [throws |-> FALSE, value |-> prev]
        ELSE IF findIndexThrows(overItems, overId) THEN [throws |-> TRUE, value |-> prev]
        ELSE [throws |-> FALSE,
              value |-> [prev EXCEPT
                  ![overContainer] =
                      insertAt(overItems, insertionIndex + 1,
                               << [activeItems[activeIndex + 1][1] EXCEPT !.tier = overContainer] >>)]]

\* the updater handleDragOver passes to setTiers (lines 497-513), applied to prev
dragOverUpdater(prev, activeContainer, overContainer, activeId, overId) ==
    LET activeItems == prev[activeContainer]
        overItems == prev[overContainer]
        activeIndex == findIndexById(activeItems, activeId)
        overIndex == findIndexById(overItems, overId)
        insertionIndex == IF overIndex >= 0 THEN overIndex ELSE Len(overItems)
    IN  IF findIndexThrows(activeItems, activeId) THEN [throws |-> TRUE, value |-> prev]
        ELSE IF activeIndex < 0 THEN [throws |-> FALSE, value |-> prev]
        ELSE IF findIndexThrows(overItems, overId) THEN [throws |-> TRUE, value |-> prev]
        ELSE [throws |-> FALSE,
              value |-> [prev EXCEPT
                  ![activeContainer] = removeAt(activeItems, activeIndex + 1),
                  ![overContainer] =
                      insertAt(overItems, insertionIndex + 1,
                               << [activeItems[activeIndex + 1][1] EXCEPT !.tier = overContainer] >>)]]

\* the album ids a render of t shows, and what a drag can be over
shownIds(t) ==
    {AlbumIds[i] : i \in {j \in 1..MaxAlbums : \E k \in TierIds : idPositions(t[k], AlbumIds[j]) # {}}}
AlbumSet == {AlbumIds[i] : i \in 1..MaxAlbums}
\* over is null, a lane (useDroppable) or an album tile (useSortable)
OverTargets == {<<>>} \cup {<< id >> : id \in AlbumSet \cup TierIds}
\* the drag is of a tile of the last render, over nothing or something of it
Draggable(activeId, over) ==
    /\ activeId \in shownIds(tierView)
    /\ IF over = <<>> THEN TRUE ELSE over[1] \in shownIds(tierView) \cup TierIds

TierInit ==
    /\ tiers = createEmptyTierState
    /\ tierView = createEmptyTierState
    /\ tierPc = "loading"
    /\ loadedAlbums = <<>>
    /\ staleEvents = 0

\* loadPlaylist resolves with n distinct albums: setTiers({unranked: mappedAlbums, ...})
\* and setLoading(false) are rendered together
TierLoad(n) ==
    /\ tierPc = "loading"
    /\ tiers' = [createEmptyTierState EXCEPT !["unranked"] = mappedAlbums(n)]
    /\ tierView' = tiers'
    /\ tierPc' = "ready"
    /\ loadedAlbums' = SubSeq(AlbumIds, 1, n)
    /\ UNCHANGED staleEvents
    /\ UNCHANGED <<coreVars, cleanVars, dedupVars, detVars, ctrVars, filterVars, similarVars, pipeVars, txVars>>

\* handleDragOver({active, over}) of the last render
TierDragOver(activeId, over) ==
    /\ tierPc = "ready"
    /\ Draggable(activeId, over)
    /\ staleEvents < MaxStale
    /\ staleEvents' = staleEvents + 1
    /\ LET activeContainer == findContainerByItemId(tierView, activeId)
           overContainer == IF over = <<>> THEN <<>> ELSE findContainerByItemId(tierView, over[1])
       IN  IF over = <<>> \/ activeContainer = <<>> \/ overContainer = <<>>
              \/ activeContainer = overContainer
           THEN UNCHANGED <<tiers, tierPc>>
           ELSE LET u == dragOverUpdater(tiers, activeContainer[1], overContainer[1],
                                         activeId, over[1])
                IN  /\ tiers' = u.value
                    /\ tierPc' = IF u.throws THEN "crashed" ELSE tierPc
    /\ UNCHANGED <<tierView, loadedAlbums>>
    /\ UNCHANGED <<coreVars, cleanVars, dedupVars, detVars, ctrVars, filterVars, similarVars, pipeVars, txVars>>

\* handleDragEnd({active, over}) of the last render
TierDragEnd(activeId, over) ==
    /\ tierPc = "ready"
    /\ Draggable(activeId, over)
    /\ staleEvents < MaxStale
    /\ staleEvents' = staleEvents + 1
    /\ LET activeContainer == findContainerByItemId(tierView, activeId)
           overContainer == IF over = <<>> THEN <<>> ELSE findContainerByItemId(tierView, over[1])
       IN  IF over = <<>> \/ activeContainer = <<>> \/ overContainer = <<>>
              \/ activeContainer # overContainer
           THEN UNCHANGED tiers
           ELSE LET activeIndex == findIndexById(tierView[activeContainer[1]], activeId)
                    overIndex == findIndexById(tierView[overContainer[1]], over[1])
                IN  IF activeIndex # overIndex /\ activeIndex >= 0 /\ overIndex >= 0
                    THEN tiers' = [tiers EXCEPT ![activeContainer[1]] =
                                      arrayMove(tiers[activeContainer[1]], activeIndex, overIndex)]
                    ELSE UNCHANGED tiers
    /\ UNCHANGED <<tierView, tierPc, loadedAlbums>>
    /\ UNCHANGED <<coreVars, cleanVars, dedupVars, detVars, ctrVars, filterVars, similarVars, pipeVars, txVars>>

\* the board renders the state: albums.map((album) => album.id) of a lane
\* with an undefined entry throws (lines 116, 165)
TierRender ==
    /\ tierPc = "ready"
    /\ staleEvents > 0
    /\ staleEvents' = 0
    /\ IF hasUndefined(tiers)
       THEN tierPc' = "crashed" /\ UNCHANGED tierView
       ELSE tierView' = tiers /\ UNCHANGED tierPc
    /\ UNCHANGED <<tiers, loadedAlbums>>
    /\ UNCHANGED <<coreVars, cleanVars, dedupVars, detVars, ctrVars, filterVars, similarVars, pipeVars, txVars>>

TierNext ==
    \/ \E n \in 1..MaxAlbums : TierLoad(n)
    \/ \E activeId \in AlbumSet, over \in OverTargets : TierDragOver(activeId, over)
    \/ \E activeId \in AlbumSet, over \in OverTargets : TierDragEnd(activeId, over)
    \/ TierRender

-----------------------------------------------------------------------------

(* reviews.ts: addReview, withClient; tierLists.ts: addTierList, withClient *)

\* calls of addReview / addTierList in one run
MaxTxCalls == 2
\* albums of one input
MaxTxAlbums == 2

TxKinds == {"review", "tierList"}

\* the tables the two functions insert into
headerTable(kind) == IF kind = "review" THEN "reviews" ELSE "tier_lists"
albumTable(kind) == IF kind = "review" THEN "review_albums" ELSE "tier_list_albums"

\* the row of the first INSERT and of the INSERT of the album at a position
headerRow(kind, id) == [table |-> headerTable(kind), owner |-> id, position |-> -1]
albumRow(kind, id, position) == [table |-> albumTable(kind), owner |-> id, position |-> position]

\* a statement is rejected (the connection stays) or the connection is lost
StatementError == [error |-> "statement rejected"]
ConnectionError == [error |-> "connection lost"]
Failures == {StatementError, ConnectionError}

TxInit ==
    /\ txPc = "idle"
    /\ txKind = "review"
    /\ txInput = 0
    /\ txPos = 0
    /\ txId = 0
    /\ txPending = {}
    /\ txStore = {}
    /\ txConn = "none"
    /\ txHeld = 0
    /\ txError = <<>>
    /\ txOutcome = <<>>
    /\ txInsertFailed = FALSE

\* addReview(input) / addTierList(input) with input.albums.length = n is
\* called and reaches "await db.connect()" of withClient
TxCall(kind, n) ==
    /\ txPc \in {"idle", "done"}
    /\ txId < MaxTxCalls
    /\ txId' = txId + 1
    /\ txKind' = kind
    /\ txInput' = n
    /\ txPos' = 0
    /\ txPc' = "connect"
    /\ txError' = <<>>
    /\ txOutcome' = <<>>
    /\ txInsertFailed' = FALSE
    /\ txConn' = "none"
    /\ UNCHANGED <<txPending, txStore, txHeld>>
    /\ UNCHANGED <<coreVars, cleanVars, dedupVars, detVars, ctrVars, filterVars, similarVars, pipeVars, tierVars>>

\* db.connect() resolves with a client; client.sql`BEGIN` is sent
TxConnectOk ==
    /\ txPc = "connect"
    /\ txHeld' = txHeld + 1
    /\ txConn' = "alive"
    /\ txPc' = "begin"
    /\ UNCHANGED <<txKind, txInput, txPos, txId, txPending, txStore, txError, txOutcome, txInsertFailed>>
    /\ UNCHANGED <<coreVars, cleanVars, dedupVars, detVars, ctrVars, filterVars, similarVars, pipeVars, tierVars>>

\* db.connect() rejects: withClient rejects before its try block
TxConnectFail ==
    /\ txPc = "connect"
    /\ txPc' = "done"
    /\ txOutcome' = << [kind |-> "thrown", error |-> ConnectionError] >>
    /\ UNCHANGED <<txKind, txInput, txPos, txId, txPending, txStore, txConn, txHeld, txError, txInsertFailed>>
    /\ UNCHANGED <<coreVars, cleanVars, dedupVars, detVars, ctrVars, filterVars, similarVars, pipeVars, tierVars>>

\* BEGIN resolves: the try block sends the INSERT of the header row
TxBeginOk ==
    /\ txPc = "begin"
    /\ txPc' = "header"
    /\ UNCHANGED <<txKind, txInput, txPos, txId, txPending, txStore, txConn, txHeld, txError, txOutcome, txInsertFailed>>
    /\ UNCHANGED <<coreVars, cleanVars, dedupVars, detVars, ctrVars, filterVars, similarVars, pipeVars, tierVars>>

\* BEGIN rejects (it is outside the try block): the handler rejects and the
\* finally block of withClient releases the client
TxBeginFail ==
    /\ txPc = "begin"
    /\ txConn' = "lost"
    /\ txHeld' = txHeld - 1
    /\ txPc' = "done"
    /\ txOutcome' = << [kind |-> "thrown", error |-> ConnectionError] >>
    /\ UNCHANGED <<txKind, txInput, txPos, txId, txPending, txStore, txError, txInsertFailed>>
    /\ UNCHANGED <<coreVars, cleanVars, dedupVars, detVars, ctrVars, filterVars, similarVars, pipeVars, tierVars>>

\* what follows an INSERT that resolved: the next album, or COMMIT
afterInsert(position) == IF position < txInput THEN "album" ELSE "commit"

\* the INSERT of the header row resolves; "for (let position = 0; ...)"
TxInsertHeaderOk ==
    /\ txPc = "header"
    /\ txPending' = txPending \cup {headerRow(txKind, txId)}
    /\ txPos' = 0
    /\ txPc' = afterInsert(0)
    /\ UNCHANGED <<txKind, txInput, txId, txStore, txConn, txHeld, txError, txOutcome, txInsertFailed>>
    /\ UNCHANGED <<coreVars, cleanVars, dedupVars, detVars, ctrVars, filterVars, similarVars, pipeVars, tierVars>>

\* the INSERT of the album at txPos resolves; position += 1
TxInsertAlbumOk ==
    /\ txPc = "album"
    /\ txPending' = txPending \cup {albumRow(txKind, txId, txPos)}
    /\ txPos' = txPos + 1
    /\ txPc' = afterInsert(txPos + 1)
    /\ UNCHANGED <<txKind, txInput, txId, txStore, txConn, txHeld, txError, txOutcome, txInsertFailed>>
    /\ UNCHANGED <<coreVars, cleanVars, dedupVars, detVars, ctrVars, filterVars, similarVars, pipeVars, tierVars>>

\* an INSERT rejects with e: control goes to the catch block, which sends
\* ROLLBACK.  A lost connection ends the transaction on the server.
TxInsertFail(e) ==
    /\ txPc \in {"header", "album"}
    /\ txInsertFailed' = TRUE
    /\ txError' = << e >>
    /\ txConn' = IF e = ConnectionError THEN "lost" ELSE txConn
    /\ txPending' = IF e = ConnectionError THEN {} ELSE txPending
    /\ txPc' = "rollback"
    /\ UNCHANGED <<txKind, txInput, txPos, txId, txStore, txHeld, txOutcome>>
    /\ UNCHANGED <<coreVars, cleanVars, dedupVars, detVars, ctrVars, filterVars, similarVars, pipeVars, tierVars>>

\* COMMIT resolves: the rows are committed, the handler returns and the
\* finally block of withClient releases the client
TxCommitOk ==
    /\ txPc = "commit"
    /\ txStore' = txStore \cup txPending
    /\ txPending' = {}
    /\ txHeld' = txHeld - 1
    /\ txPc' = "done"
    /\ txOutcome' = << [kind |-> "returned", id |-> txId] >>
    /\ UNCHANGED <<txKind, txInput, txPos, txId, txConn, txError, txInsertFailed>>
    /\ UNCHANGED <<coreVars, cleanVars, dedupVars, detVars, ctrVars, filterVars, similarVars, pipeVars, tierVars>>

\* COMMIT rejects because the connection is lost: the server has committed
\* the transaction or not; control goes to the catch block
TxCommitFail(committed) ==
    /\ txPc = "commit"
    /\ txStore' = IF committed THEN txStore \cup txPending ELSE txStore
    /\ txPending' = {}
    /\ txConn' = "lost"
    /\ txError' = << ConnectionError >>
    /\ txPc' = "rollback"
    /\ UNCHANGED <<txKind, txInput, txPos, txId, txHeld, txOutcome, txInsertFailed>>
    /\ UNCHANGED <<coreVars, cleanVars, dedupVars, detVars, ctrVars, filterVars, similarVars, pipeVars, tierVars>>

\* a catch block that does not rethrow after ROLLBACK: the call returns
TxRollbackOkSwallow ==
    /\ txPc = "rollback"
    /\ txConn = "alive"
    /\ txPending' = {}
    /\ txHeld' = txHeld - 1
    /\ txPc' = "done"
    /\ txOutcome' = << [kind |-> "returned", id |-> txId] >>
    /\ UNCHANGED <<txKind, txInput, txPos, txId, txStore, txConn, txError, txInsertFailed>>
    /\ UNCHANGED <<coreVars, cleanVars, dedupVars, detVars, ctrVars, filterVars, similarVars, pipeVars, tierVars>>

\* ROLLBACK resolves: "throw error" rejects the handler with the caught error
\* and the finally block of withClient releases the client
TxRollbackOk ==
    /\ txPc = "rollback"
    /\ txConn = "alive"
    /\ txPending' = {}
    /\ txHeld' = txHeld - 1
    /\ txPc' = "done"
    /\ txOutcome' = << [kind |-> "thrown", error |-> txError[1]] >>
    /\ UNCHANGED <<txKind, txInput, txPos, txId, txStore, txConn, txError, txInsertFailed>>
    /\ UNCHANGED <<coreVars, cleanVars, dedupVars, detVars, ctrVars, filterVars, similarVars, pipeVars, tierVars>>

\* ROLLBACK rejects (the connection is lost, now or before): the catch block
\* rejects with that error and the finally block releases the client
TxRollbackFail ==
    /\ txPc = "rollback"
    /\ txConn' = "lost"
    /\ txPending' = {}
    /\ txHeld' = txHeld - 1
    /\ txPc' = "done"
    /\ txOutcome' = << [kind |-> "thrown", error |-> ConnectionError] >>
    /\ UNCHANGED <<txKind, txInput, txPos, txId, txStore, txError, txInsertFailed>>
    /\ UNCHANGED <<coreVars, cleanVars, dedupVars, detVars, ctrVars, filterVars, similarVars, pipeVars, tierVars>>

TxNext ==
    \/ \E kind \in TxKinds, n \in 0..MaxTxAlbums : TxCall(kind, n)
    \/ TxConnectOk
    \/ TxConnectFail
    \/ TxBeginOk
    \/ TxBeginFail
    \/ TxInsertHeaderOk
    \/ TxInsertAlbumOk
    \/ \E e \in Failures : TxInsertFail(e)
    \/ TxCommitOk
    \/ \E committed \in BOOLEAN : TxCommitFail(committed)
    \/ TxRollbackOk
    \/ TxRollbackFail

-----------------------------------------------------------------------------

(* Specifications: each exercises one part of the program and leaves the    *)
(* others at rest.                                                          *)

ParserIdle == text = <<>> /\ albums = <<>> /\ stage = "off"
ResolverIdle ==
    /\ rsAlbum = [artist |-> <<>>, album |-> <<>>]
    /\ rsPc = "off"
    /\ rsIssued = <<>>
    /\ rsResponses = <<>>
    /\ rsReturn = <<>>

CleanIdle == cleanInput = <<>> /\ cleanPasses = <<>>
DedupIdle == dedupInput = <<>> /\ dedupOutput = <<>>
DetectIdle == detImage = <<>> /\ detResult = <<>>
ContrastIdle == ctrPixel = <<>> /\ ctrOut = <<>>
FilterIdle == filterInput = <<>> /\ filterOutput = <<>>
SimilarIdle == simArgs = <<>> /\ simResult = <<>>
PipelineIdle == pipeText = <<>> /\ pipeOutput = <<>>
TierIdle == tiers = <<>> /\ tierView = <<>> /\ tierPc = <<>> /\ loadedAlbums = <<>> /\ staleEvents = <<>>
TxIdle == txPc = <<>> /\ txKind = <<>> /\ txInput = <<>> /\ txPos = <<>> /\ txId = <<>> /\ txPending = <<>> /\ txStore = <<>> /\ txConn = <<>> /\ txHeld = <<>> /\ txError = <<>> /\ txOutcome = <<>> /\ txInsertFailed = <<>>
PureIdle == CleanIdle /\ DedupIdle /\ DetectIdle /\ ContrastIdle /\ FilterIdle /\ SimilarIdle /\ PipelineIdle /\ TierIdle /\ TxIdle

ParserSpecInit == ParserInit /\ OcrInit /\ ResolverIdle /\ ImporterInit /\ BuilderInit /\ PureIdle
ParserSpec == ParserSpecInit /\ [][ParserNext]_vars

OcrSpecInit == OcrInit /\ ParserIdle /\ ResolverIdle /\ ImporterInit /\ BuilderInit /\ PureIdle
OcrSpec == OcrSpecInit /\ [][OcrNext]_vars

ResolverSpecInit == ResolverInit /\ ParserIdle /\ OcrInit /\ ImporterInit /\ BuilderInit /\ PureIdle
ResolverSpec == ResolverSpecInit /\ [][ResolverNext]_vars

ImporterSpecInit == ImporterInit /\ BuilderInit /\ ParserIdle /\ OcrInit /\ ResolverIdle /\ PureIdle
ImporterSpec == ImporterSpecInit /\ [][ImporterNext]_vars

\* The importer after one completed extraction of a two-line text, followed
\* from there through searches and edits only, with room for one edited copy.
EditingText == Line1 \o <<NL>> \o Line2

EditingInit ==
    LET list == asMatchedAlbums(importPipeline(EditingText))
    IN  /\ selectedImage = <<"img1">>
        /\ isProcessing = FALSE
        /\ ocrProgress = <<>>
        /\ extractedText = EditingText
        /\ heap = [o \in Objs |-> IF o <= Len(list) THEN list[o] ELSE NoObject]
        /\ parsedAlbums = [i \in 1..Len(list) |-> i]
        /\ allocated = Len(list)
        /\ showResults = TRUE
        /\ isSearching = FALSE
        /\ view = RenderOf(TRUE, [i \in 1..Len(list) |-> i],
                           [o \in Objs |-> IF o <= Len(list) THEN list[o] ELSE NoObject])
        /\ processing = <<>>
        /\ batches = <<>>
        /\ manuals = <<>>
        /\ batchTrace = <<>>
        /\ batchLog = <<>>
        /\ batchAborted = FALSE
        /\ expected = NoExpectation
        /\ objLimit = MaxHeap

EditingNext ==
    \/ StartBatch
    \/ \E b \in 1..MaxBatches, resp \in ImporterResponses : BatchResponse(b, resp)
    \/ \E b \in 1..MaxBatches : BatchDelayElapsed(b)
    \/ \E index \in Objs : ManualStart(index)
    \/ \E m \in 1..MaxManual, resp \in ImporterResponses : ManualResponse(m, resp)
    \/ \E index \in Objs, field \in {"artist", "album"} : EditAlbum(index, field)

EditingSpecInit == EditingInit /\ BuilderInit /\ ParserIdle /\ OcrInit /\ ResolverIdle /\ PureIdle
EditingSpec == EditingSpecInit /\ [][EditingNext]_vars

CoreIdle == ParserIdle /\ OcrInit /\ ResolverIdle /\ ImporterInit /\ BuilderInit

CleanSpecInit == CleanInit /\ DedupIdle /\ DetectIdle /\ ContrastIdle /\ FilterIdle /\ SimilarIdle /\ PipelineIdle /\ TierIdle /\ TxIdle /\ CoreIdle
CleanSpec == CleanSpecInit /\ [][CleanNext]_vars

DedupSpecInit == DedupInit /\ CleanIdle /\ DetectIdle /\ ContrastIdle /\ FilterIdle /\ SimilarIdle /\ PipelineIdle /\ TierIdle /\ TxIdle /\ CoreIdle
DedupSpec == DedupSpecInit /\ [][DedupNext]_vars

DetectSpecInit == DetectInit /\ CleanIdle /\ DedupIdle /\ ContrastIdle /\ FilterIdle /\ SimilarIdle /\ PipelineIdle /\ TierIdle /\ TxIdle /\ CoreIdle
DetectSpec == DetectSpecInit /\ [][DetectNext]_vars

ContrastSpecInit == ContrastInit /\ CleanIdle /\ DedupIdle /\ DetectIdle /\ FilterIdle /\ SimilarIdle /\ PipelineIdle /\ TierIdle /\ TxIdle /\ CoreIdle
ContrastSpec == ContrastSpecInit /\ [][ContrastNext]_vars

FilterSpecInit == FilterInit /\ CleanIdle /\ DedupIdle /\ DetectIdle /\ ContrastIdle /\ SimilarIdle /\ PipelineIdle /\ TierIdle /\ TxIdle /\ CoreIdle
FilterSpec == FilterSpecInit /\ [][FilterNext]_vars

SimilarSpecInit == SimilarInit /\ CleanIdle /\ DedupIdle /\ DetectIdle /\ ContrastIdle /\ FilterIdle /\ PipelineIdle /\ TierIdle /\ TxIdle /\ CoreIdle
SimilarSpec == SimilarSpecInit /\ [][SimilarNext]_vars

PipelineSpecInit == PipelineInit /\ CleanIdle /\ DedupIdle /\ DetectIdle /\ ContrastIdle /\ FilterIdle /\ SimilarIdle /\ TierIdle /\ TxIdle /\ CoreIdle
PipelineSpec == PipelineSpecInit /\ [][PipelineNext]_vars

TierSpecInit == TierInit /\ CleanIdle /\ DedupIdle /\ DetectIdle /\ ContrastIdle /\ FilterIdle /\ SimilarIdle /\ PipelineIdle /\ TxIdle /\ CoreIdle
TierSpec == TierSpecInit /\ [][TierNext]_vars

TxSpecInit == TxInit /\ CleanIdle /\ DedupIdle /\ DetectIdle /\ ContrastIdle /\ FilterIdle /\ SimilarIdle /\ PipelineIdle /\ TierIdle /\ CoreIdle
TxSpec == TxSpecInit /\ [][TxNext]_vars

-----------------------------------------------------------------------------
(* Claims about the OCR adapter *)

\* C1: whenever a call of processImageWithOCR has completed (returned or
\* thrown) and a worker was created in it, worker.terminate() was invoked in
\* that call, both when recognition succeeded and when it failed; no worker
\* is left un-terminated between calls.
C1_WorkerAlwaysTerminated ==
    /\ (ocrPc \in {"returned", "thrown"} /\ workerCreated) => terminateCalled
    /\ ocrPc \in {"idle", "returned", "thrown"} => liveWorkers = 0

-----------------------------------------------------------------------------
(* Claims about the match resolver *)

\* the four query strings of the claim, for cleaned artist A and album B
QueryOrder(A, B) ==
    << ArtistTag \o A \o AlbumTag \o B,
       A \o <<Space>> \o B,
       ArtistTag \o A \o <<Space>> \o B,
       B \o <<Space>> \o A >>

\* the (query, result) positions of the responses received whose result passes
\* both the artist test and the album-title test
PassingPairs ==
    { qj \in (1..Len(rsResponses)) \X (1..3) :
        /\ rsResponses[qj[1]].kind = "ok"
        /\ qj[2] <= Len(rsResponses[qj[1]].albums)
        /\ isSimilar(rsAlbum.artist, resultArtist(rsResponses[qj[1]].albums[qj[2]]))
        /\ isSimilar(rsAlbum.album, resultAlbum(rsResponses[qj[1]].albums[qj[2]])) }

\* the least pair, by query and then by position in the response
FirstPair(P) ==
    CHOOSE qj \in P : \A o \in P : qj[1] < o[1] \/ (qj[1] = o[1] /\ qj[2] <= o[2])

\* C2: when the fetch of query k (k in 1..3) throws, the resolver still issues
\* the following query for the same candidate before it returns.
C2_ThrowDoesNotStopQueries ==
    rsPc = "done" =>
        \A k \in 1..3 :
            (k <= Len(rsResponses) /\ rsResponses[k].kind = "throw") => Len(rsIssued) > k

\* C4: the queries issued are the four strategies in their order, one after
\* the other; the call returns the first passing result in query order and
\* then in result order, issues no query after the accepting one, returns null
\* when no query/result pair passes, and gives up early only when it accepted
\* a result or a request threw.
C4_QueryOrderFirstMatch ==
    LET order == QueryOrder(cleanSearchQuery(rsAlbum.artist), cleanSearchQuery(rsAlbum.album))
    IN  /\ rsPc \in {"fetching", "done"} =>
              /\ Len(rsIssued) \in 1..4
              /\ \A k \in 1..Len(rsIssued) : rsIssued[k] = order[k]
              /\ Len(rsResponses) = Len(rsIssued) - (IF rsPc = "fetching" THEN 1 ELSE 0)
        /\ rsPc = "fetching" => PassingPairs = {}
        /\ rsPc = "done" =>
              IF PassingPairs = {}
              THEN /\ rsReturn = <<>>
                   /\ \/ Len(rsIssued) = 4
                      \/ rsResponses[Len(rsResponses)].kind = "throw"
              ELSE LET qj == FirstPair(PassingPairs)
                       hit == rsResponses[qj[1]].albums[qj[2]]
                   IN  /\ qj[1] = Len(rsIssued)
                       /\ rsReturn # <<>>
                       /\ rsReturn[1].id = hit.id
                       /\ rsReturn[1].name = hit.name

\* only the third strategy produced a passing result: the first two were issued
\* and answered without a match, the third was accepted, the fourth never issued
C4_Witness ==
    /\ rsPc = "done"
    /\ Len(rsIssued) = 3
    /\ rsResponses[1].kind = "ok" /\ rsResponses[2].kind = "ok"
    /\ Len(rsResponses[3].albums) = 3
    /\ rsReturn # <<>>
    /\ rsReturn[1].id = "id1"

-----------------------------------------------------------------------------
(* Claims about the line parser *)

\* 0-based positions at which d occurs in cl
Occurrences(cl, d) ==
    {p \in 0..(Len(cl) - Len(d)) : SubSeq(cl, p + 1, p + Len(d)) = d}

\* the split of cl around the occurrence of d at 0-based position p
SplitAt(cl, d, p) ==
    [artist |-> trim(SubSeq(cl, 1, p)),
     album  |-> trim(SubSeq(cl, p + Len(d) + 1, Len(cl)))]

\* the split of cl at the first occurrence of its k-th delimiter (<<>> if absent)
FirstSplit(cl, k) ==
    LET occ == Occurrences(cl, delimiters[k])
    IN  IF occ = {} THEN <<>>
        ELSE LET p == CHOOSE q \in occ : \A r \in occ : q <= r
             IN  IF p > 0 THEN << SplitAt(cl, delimiters[k], p) >> ELSE <<>>

\* the k-th delimiter gives an accepted split of cl
Accepts(cl, k) ==
    /\ FirstSplit(cl, k) # <<>>
    /\ Len(FirstSplit(cl, k)[1].artist) \in 1..99
    /\ Len(FirstSplit(cl, k)[1].album) \in 1..199

\* the candidates parseAlbumsFromText emitted for its n-th line, without lineNumber
Emitted(n) ==
    { [artist |-> albums[j].artist, album |-> albums[j].album] :
        j \in {i \in 1..Len(albums) : albums[i].lineNumber = n} }

\* C9: every line yields the split, at the first occurrence, of the first
\* delimiter in priority order whose split is accepted, and nothing when no
\* delimiter is accepted; a lower-priority delimiter is never used when a
\* higher-priority one gives an accepted split.
C9_DelimiterPriority ==
    stage = "parsed" =>
        \A n \in 1..Len(textLines(text)) :
            LET cl == stripEnumeration(textLines(text)[n])
                acc == {k \in 1..Len(delimiters) : Accepts(cl, k)}
            IN  IF acc = {} THEN Emitted(n) = {}
                ELSE LET best == CHOOSE k \in acc : \A j \in acc : k <= j
                     IN  Emitted(n) = { FirstSplit(cl, best)[1] }

\* 'x - y - z' has been parsed to artist 'x' and album 'y - z'
C9_Witness ==
    /\ stage = "parsed"
    /\ text = <<"x", Space, "-", Space, "y", Space, "-", Space, "z">>
    /\ Len(albums) = 1
    /\ albums[1].artist = <<"x">>
    /\ albums[1].album = <<"y", Space, "-", Space, "z">>

\* C10: every emitted candidate has a trimmed artist of 1..99 and a trimmed
\* album of 1..199 characters; a delimiter whose first-occurrence split breaks
\* these limits (or sits at index 0) is not the one a candidate comes from, a
\* later accepted delimiter still yields the candidate, and a line with no
\* accepted split yields no candidate.
C10_LengthBounds ==
    stage = "parsed" =>
        /\ \A j \in 1..Len(albums) :
              /\ Len(albums[j].artist) >= 1 /\ Len(albums[j].artist) <= 99
              /\ Len(albums[j].album) >= 1 /\ Len(albums[j].album) <= 199
        /\ \A n \in 1..Len(textLines(text)) :
              LET cl == stripEnumeration(textLines(text)[n])
              IN  /\ (Emitted(n) = {}) <=> (\A k \in 1..Len(delimiters) : ~Accepts(cl, k))
                  /\ Cardinality(Emitted(n)) <= 1

\* a line whose ' - ' split has an artist of 100 or more characters fell through
\* to a lower-priority delimiter, which produced the candidate
C10_Witness ==
    /\ stage = "parsed"
    /\ Len(albums) = 1
    /\ LET cl == stripEnumeration(textLines(text)[1])
       IN  /\ FirstSplit(cl, 1) # <<>>
           /\ Len(FirstSplit(cl, 1)[1].artist) >= 100
           /\ albums[1].artist = <<"x">>

-----------------------------------------------------------------------------
(* Claims about the import orchestrator (ImporterSpec) *)

\* the position of the batch in flight, if any
BatchAt(i) == \E b \in 1..Len(batches) : batches[b].i = i

C5_MatchedHasSpotifyData ==
    \A i \in 1..Len(parsedAlbums) :
        heap[parsedAlbums[i]].matched => heap[parsedAlbums[i]].spotifyData # <<>>

\* a candidate whose artist was edited has since been resolved and is matched
C5_Witness ==
    \E i \in 1..Len(parsedAlbums) :
        /\ heap[parsedAlbums[i]].artist = EditValues.artist
        /\ heap[parsedAlbums[i]].matched
        /\ heap[parsedAlbums[i]].spotifyData # <<>>

\* C6: after handleEditAlbum on candidate i, candidate i holds the new text with
\* matched = false and no spotifyData until a resolution of candidate i is
\* started after the edit, also when a resolution was in flight at the edit.
C6_EditResetsUntilNewResolution ==
    \A i \in 1..Len(parsedAlbums) :
        expected[i] # <<>> =>
            /\ textOf(heap, parsedAlbums[i]) = expected[i][1]
            /\ ~heap[parsedAlbums[i]].matched
            /\ heap[parsedAlbums[i]].spotifyData = <<>>

\* the events of a batch over n candidates that runs to its last delay
RECURSIVE BatchEvents(_)
BatchEvents(n) ==
    IF n = 0 THEN <<>>
    ELSE BatchEvents(n - 1)
            \o (IF n > 1 THEN << <<"delay", n - 1>> >> ELSE <<>>)
            \o << <<"start", n>>, <<"settle", n>> >>

IsPrefix(s, t) == Len(s) <= Len(t) /\ SubSeq(t, 1, Len(s)) = s

\* C7: a batch takes its candidates in list order, one at a time: candidate
\* i + 1 is started only after candidate i has settled and the delay has been
\* taken; while a batch runs no second batch is running or can be started.
C7_BatchSequentialAndExclusive ==
    /\ IsPrefix(batchTrace, BatchEvents(MaxObjs))
    /\ Len(batches) <= 1
    /\ batches # <<>> => isSearching /\ ~SearchAllEnabled

\* a batch has reached its second candidate
C7_Witness ==
    /\ Len(batches) = 1
    /\ batchTrace = << <<"start", 1>>, <<"settle", 1>>, <<"delay", 1>>, <<"start", 2>> >>

\* C8: no step changes a field of a candidate record of the list that is the
\* orchestrator's state: the list is only replaced.
C8_PublishedRecordsNeverMutated ==
    [][\A i \in 1..Len(parsedAlbums) : heap'[parsedAlbums[i]] = heap[parsedAlbums[i]]]_vars

-----------------------------------------------------------------------------
(* Claims about the line parser, continued (ParserSpec) *)

\* p is digits, then '.' or ')', then optional white space
IsEnumPrefix(p) ==
    \E d \in 1..(Len(p) - 1) :
        /\ \A j \in 1..d : p[j] \in Digits
        /\ p[d + 1] \in {".", ")"}
        /\ \A j \in (d + 2)..Len(p) : p[j] \in Whitespace

BeginsWithEnum(l) == \E n \in 1..Len(l) : IsEnumPrefix(SubSeq(l, 1, n))

\* the artist and album of each candidate, without its lineNumber
Fields(list) == [i \in 1..Len(list) |-> [artist |-> list[i].artist, album |-> list[i].album]]

C12_LineNumberIsOriginalPosition ==
    stage = "parsed" =>
        LET raw == splitLines(text)
        IN  /\ \A j \in 1..Len(albums) :
                  /\ albums[j].lineNumber \in 1..Len(raw)
                  /\ parseAlbumLine(trim(raw[albums[j].lineNumber]))
                        = << [artist |-> albums[j].artist, album |-> albums[j].album] >>
            /\ \A j \in 1..(Len(albums) - 1) :
                  albums[j].lineNumber < albums[j + 1].lineNumber
            /\ \A n \in 1..Len(raw) :
                  parseAlbumLine(trim(raw[n])) # <<>>
                      => \E j \in 1..Len(albums) : albums[j].lineNumber = n

-----------------------------------------------------------------------------
(* Claims about cleanText (CleanSpec) *)

\* C13: cleanText is idempotent: cleanText(cleanText(s)) = cleanText(s) for
\* every string s, with white-space runs, curly quotes, curly apostrophes and
\* the ellipsis glyph among its characters.
C13_CleanTextIdempotent ==
    Len(cleanPasses) = 2 => cleanPasses[2] = cleanPasses[1]

\* a string with a white-space run, an ellipsis and a curly quote has been
\* cleaned twice, and the first pass changed it
C13_Witness ==
    /\ Len(cleanPasses) = 2
    /\ cleanInput = <<LeftDoubleQuote, Space, NL, Ellipsis>>
    /\ cleanPasses[1] = <<LeftDoubleQuote, Space, ".", ".", ".">>

-----------------------------------------------------------------------------
(* Claims about deduplicateAlbums (DedupSpec) *)

\* artist + album, lower-cased, without the characters outside [a-z0-9]
KeyOf(a) == SelectSeq(toLowerCase(a.artist \o a.album), LAMBDA c : c \in LowerSet \cup Digits)

\* C14: deduplicateAlbums keeps exactly the first occurrence of each key
\* (artist + album lower-cased, characters outside [a-z0-9] removed), in the
\* original order and casing: the output is a subsequence of the input with
\* pairwise distinct keys, and every key of the input occurs in it.
C14_DedupKeepsFirstOccurrences ==
    dedupOutput # <<>> =>
        LET out == dedupOutput[1]
        IN  /\ \A j \in 1..Len(out) :
                  /\ out[j].lineNumber \in 1..Len(dedupInput)
                  /\ out[j] = dedupInput[out[j].lineNumber]
                  /\ \A i \in 1..(out[j].lineNumber - 1) : KeyOf(dedupInput[i]) # KeyOf(out[j])
            /\ \A j \in 1..(Len(out) - 1) : out[j].lineNumber < out[j + 1].lineNumber
            /\ \A j, k \in 1..Len(out) : j # k => KeyOf(out[j]) # KeyOf(out[k])
            /\ \A i \in 1..Len(dedupInput) :
                  \E j \in 1..Len(out) : KeyOf(out[j]) = KeyOf(dedupInput[i])

\* 'ab'/'c', 'x'/'1', 'AB'/'C' has been reduced to its first two entries
C14_Witness ==
    /\ Len(dedupInput) = 3
    /\ dedupInput[1].artist = <<"a", "b">>
    /\ dedupInput[2].artist = <<"x">>
    /\ dedupInput[3].artist = <<"A", "B">>
    /\ dedupOutput = << <<dedupInput[1], dedupInput[2]>> >>

-----------------------------------------------------------------------------
(* Claims about detectTextColumnStart (DetectSpec)                          *)

\* the strips (1-based) whose averaged colourfulness exceeds 0.08 * max
ColourfulStrips(img) ==
    LET avg == avgColorfulness(img)
    IN  { i \in 1..Len(avg) :
            \A j \in 1..Len(avg) : 100 * avg[i] > 8 * avg[j] }

\* one strip-width past the rightmost such strip (past the first strip when
\* no strip is colourful at all)
RawBoundary(img) ==
    IF ColourfulStrips(img) = {} THEN stripWidth
    ELSE stripWidth * (CHOOSE i \in ColourfulStrips(img) :
                          \A j \in ColourfulStrips(img) : j <= i)

WithinRange(x100, width) == 40 * width <= x100 /\ x100 <= 75 * width

Returned == detResult # <<>> /\ detResult[1].kind = "returned"

\* C15: the x-offset returned by the column detector is the raw boundary (one
\* strip-width past the rightmost strip whose averaged colourfulness exceeds
\* 0.08 * max) when that lies within [40%, 75%] of the image width and exactly
\* 55% of the width otherwise, so it always lies within [40%, 75%] of the width.
C15_ColumnStartWithinRange ==
    Returned =>
        LET img == detImage[1]
            raw100 == 100 * RawBoundary(img)
        IN  /\ detResult[1].x100 =
                  IF WithinRange(raw100, img.width) THEN raw100 ELSE 55 * img.width
            /\ WithinRange(detResult[1].x100, img.width)

\* a colourful strip gives a raw boundary exactly at 40% of the width, which is returned
C15_Witness ==
    /\ Returned
    /\ ColourfulStrips(detImage[1]) # {}
    /\ 100 * RawBoundary(detImage[1]) = 40 * detImage[1].width
    /\ detResult[1].x100 = 100 * RawBoundary(detImage[1])

\* C16: detectTextColumnStart is total: for every image with width >= 1 and
\* height >= 1, heights below the number of bands included, the call returns an
\* x-offset and never raises.
C16_DetectorNeverRaises ==
    (detResult # <<>> /\ detImage[1].width >= 1 /\ detImage[1].height >= 1)
        => detResult[1].kind = "returned"

-----------------------------------------------------------------------------
(* Claims about the failure of processImageWithOCR (OcrSpec)                *)

\* C17: whichever step of the OCR adapter fails (worker creation, recognition
\* or worker termination), the call fails with the one generic error 'Failed to
\* extract text from image. Please try a clearer image.', and a failed call
\* carries neither the engine's own error nor the recognized data.
C17_FailureIsGeneric ==
    [][ /\ (CreateWorkerFail \/ RecognizeFail \/ TerminateFail)
            => (ocrPc' = "thrown" /\ ocrOutcome' = << GenericOcrError >>)
        /\ ocrPc' = "thrown"
            => (ocrOutcome' = << GenericOcrError >> /\ ocrOutcome'[1] \notin RecognizedData)
      ]_vars

\* termination failed after a successful recognition, and the call failed with
\* the generic error
C17_Witness ==
    /\ ocrPc = "thrown"
    /\ workerCreated
    /\ terminateCalled
    /\ ocrOutcome = << GenericOcrError >>

-----------------------------------------------------------------------------
(* Claims about a failing import run (ImporterSpec)                         *)

-----------------------------------------------------------------------------
(* Claims about the contrast loop of preprocessImage (ContrastSpec)         *)

\* C19: for a pixel whose channels are in [0, 255], the contrast-adjusted value
\* factor * (avg - 128) + 128 at contrast 2.0, once clamped, is in [0, 255], and
\* the R, G and B channels of the pixel are all written with that one value.
C19_ContrastValueClampedAndGrey ==
    ctrOut # <<>> =>
        LET out == ctrOut[1]
        IN  /\ 0 <= out.clamped.num
            /\ out.clamped.num <= 255 * out.clamped.den
            /\ out.r \in 0..255
            /\ out.r = toUint8Clamped(out.clamped)
            /\ out.g = out.r
            /\ out.b = out.r

\* a white pixel with unequal channels nearby: the adjusted value exceeds 255
\* and is clamped to 255
C19_Witness ==
    /\ ctrOut # <<>>
    /\ ctrPixel[1].r # ctrPixel[1].g
    /\ adjusted(avgOf(ctrPixel[1])).num > 255 * adjusted(avgOf(ctrPixel[1])).den
    /\ ctrOut[1].r = 255
    /\ ctrOut[1].g = 255
    /\ ctrOut[1].b = 255

-----------------------------------------------------------------------------
(* Claims about the import handoff (ImporterSpec)                           *)

\* the positions of the list whose candidate is matched
MatchedPositions == { i \in 1..Len(parsedAlbums) : heap[parsedAlbums[i]].matched }

\* is q the sequence of the resolved records at the positions P, in list order
IsRecordsOf(q, P) ==
    \E f \in [1..Len(q) -> P] :
        /\ \A i \in P : \E k \in 1..Len(q) : f[k] = i
        /\ \A k \in 1..Len(q), l \in 1..Len(q) : k < l => f[k] < f[l]
        /\ \A k \in 1..Len(q) : << q[k] >> = heap[parsedAlbums[f[k]]].spotifyData

\* C20: a click on the import button hands the builder exactly the resolved
\* records of the candidates that are matched at that moment, in list order
\* (so none of a candidate that is unmatched, was reset by an edit or is no
\* longer in the list), and hands it nothing at all when no candidate is matched.
C20_HandoffIsExactlyTheMatched ==
    [][ /\ importCalls' # importCalls
            => /\ MatchedPositions # {}
               /\ IsRecordsOf(importedAlbums', MatchedPositions)
        /\ (ImportMatched /\ MatchedPositions = {})
            => (importCalls' = importCalls /\ importedAlbums' = importedAlbums)
        /\ (ImportMatched /\ MatchedPositions # {})
            => importCalls' = importCalls + 1
      ]_vars

\* two records have been handed over while the list holds two matched candidates
C20_Witness ==
    /\ importCalls = 1
    /\ Len(importedAlbums) = 2
    /\ importedAlbums[1] # importedAlbums[2]
    /\ Len(parsedAlbums) = 2

-----------------------------------------------------------------------------
(* Claims about filterValidAlbums (FilterSpec)                              *)

LettersIn(s) == Cardinality({ i \in 1..Len(s) : s[i] \in LowerSet \cup UpperSet })
SpecialsIn(s) ==
    Cardinality({ i \in 1..Len(s) :
                    s[i] \notin LowerSet \cup UpperSet \cup Digits \cup Whitespace
                                 \cup {"-", "'", "/"} })
Combined(c) == c.artist \o <<Space>> \o c.album

\* the drop rule as stated: a field under 2 characters, fewer than 5 letters,
\* or more than 30% other characters
DroppedByRule(c) ==
    \/ Len(c.artist) < 2
    \/ Len(c.album) < 2
    \/ LettersIn(Combined(c)) < 5
    \/ 10 * SpecialsIn(Combined(c)) > 3 * Len(Combined(c))

RECURSIVE KeptByRule(_)
KeptByRule(list) ==
    IF list = <<>> THEN <<>>
    ELSE IF DroppedByRule(Head(list)) THEN KeptByRule(Tail(list))
    ELSE <<Head(list)>> \o KeptByRule(Tail(list))

\* C21: filterValid drops a candidate exactly when a field has fewer than 2
\* characters, or the combined string has fewer than 5 letters, or its other
\* characters are strictly more than 30% of its length (exactly 30% is kept);
\* the kept candidates stay in their order.
C21_FilterDropsExactlyByRule ==
    filterOutput # <<>> => filterOutput[1] = KeptByRule(filterInput)

-----------------------------------------------------------------------------
(* Claims about isSimilar (SimilarSpec)                                     *)

\* how many of the words ws have a containment match among the words vs
MatchCount(ws, vs) ==
    Cardinality({ i \in 1..Len(ws) :
                    \E j \in 1..Len(vs) : includes(vs[j], ws[i]) \/ includes(ws[i], vs[j]) })

\* the word rule as stated: at least half of the words of the string with
\* fewer words (of more than 2 characters) match; with as many words on both
\* sides the first string is taken
WordRule(n1, n2) ==
    LET w1 == longWords(n1)
        w2 == longWords(n2)
    IN  /\ Len(w1) > 0
        /\ Len(w2) > 0
        /\ \/ Len(w1) < Len(w2) /\ 2 * MatchCount(w1, w2) >= Len(w1)
           \/ Len(w2) < Len(w1) /\ 2 * MatchCount(w2, w1) >= Len(w2)
           \/ Len(w1) = Len(w2) /\ 2 * MatchCount(w1, w2) >= Len(w1)

SimilarByRule(a, b) ==
    LET n1 == normalizeText(a)
        n2 == normalizeText(b)
    IN  n1 = n2 \/ includes(n1, n2) \/ includes(n2, n1) \/ WordRule(n1, n2)

\* C22: isSimilar(a, b) passes exactly when the normalised strings are equal,
\* or one contains the other, or at least 50% of the words longer than 2
\* characters of the string with fewer such words have a containment match
\* among the other string's words, whichever argument that string is.
C22_SimilarCountsShorterString ==
    simResult # <<>> => (simResult[1] <=> SimilarByRule(simArgs[1], simArgs[2]))

\* isSimilar gives the same answer with its arguments exchanged
IsSimilarSymmetric ==
    simResult # <<>> => (simResult[1] <=> isSimilar(simArgs[2], simArgs[1]))

-----------------------------------------------------------------------------
(* Claims about the stages of an import run (PipelineSpec)                  *)

\* the candidates after parsing and per-field cleaning
PipeCleaned ==
    LET parsed == parseAlbumsFromText(pipeText)
    IN  [i \in 1..Len(parsed) |-> cleanAlbumInfo(parsed[i])]

\* the positions a filter followed by a dedup keeps: valid, and no earlier
\* valid candidate has the same key
PipeKept ==
    { i \in 1..Len(PipeCleaned) :
        /\ isValidAlbum(PipeCleaned[i])
        /\ \A j \in 1..(i - 1) :
              isValidAlbum(PipeCleaned[j]) => KeyOf(PipeCleaned[j]) # KeyOf(PipeCleaned[i]) }

KthOf(S, k) == CHOOSE i \in S : Cardinality({ j \in S : j < i }) = k - 1

\* C23: the list an import run produces is deduplicate(filterValid(clean per
\* field(parse(text)))), stages in that order: a valid candidate is kept even
\* when an earlier invalid candidate has its dedup key; every produced
\* candidate passes the filter, no two share a dedup key, and each starts with
\* matched = false and searching = false.
C23_PipelineFiltersThenDeduplicates ==
    pipeOutput # <<>> =>
        LET out == pipeOutput[1]
        IN  /\ Len(out) = Cardinality(PipeKept)
            /\ \A k \in 1..Len(out) :
                  /\ out[k].artist = PipeCleaned[KthOf(PipeKept, k)].artist
                  /\ out[k].album = PipeCleaned[KthOf(PipeKept, k)].album
                  /\ out[k].lineNumber = PipeCleaned[KthOf(PipeKept, k)].lineNumber
                  /\ isValidAlbum(out[k])
                  /\ ~out[k].matched
                  /\ ~out[k].searching
                  /\ out[k].spotifyData = <<>>
            /\ \A k \in 1..Len(out), l \in 1..Len(out) :
                  k # l => KeyOf(out[k]) # KeyOf(out[l])

\* an invalid candidate comes first, a valid one with the same key follows and
\* is in the produced list
C23_Witness ==
    /\ pipeOutput # <<>>
    /\ \E i \in 1..Len(PipeCleaned), j \in 1..Len(PipeCleaned) :
          /\ i < j
          /\ ~isValidAlbum(PipeCleaned[i])
          /\ isValidAlbum(PipeCleaned[j])
          /\ KeyOf(PipeCleaned[i]) = KeyOf(PipeCleaned[j])
          /\ \E k \in 1..Len(pipeOutput[1]) :
                pipeOutput[1][k].lineNumber = PipeCleaned[j].lineNumber

-----------------------------------------------------------------------------
(* Claims about resolutions completing among edits and removals             *)
(* (ImporterSpec)                                                           *)

\* a step in which a fetch of a batch or of a manual search settles
ResolutionStep ==
    \/ \E b \in 1..MaxBatches, resp \in ImporterResponses : BatchResponse(b, resp)
    \/ \E m \in 1..MaxManual, resp \in ImporterResponses : ManualResponse(m, resp)

\* C24: when a resolution of candidate i completes it changes only the
\* searching, matched and resolved-album fields of candidate i: the list holds
\* the same candidates at the same positions as immediately before, and no
\* candidate's artist, album or line number changes, so an edit or a removal
\* made while the resolution was in flight stays in effect.
C24_CompletionLeavesRestOfList ==
    [][ ResolutionStep =>
            /\ parsedAlbums' = parsedAlbums
            /\ \A o \in Objs :
                  /\ heap'[o].artist = heap[o].artist
                  /\ heap'[o].album = heap[o].album
                  /\ heap'[o].lineNumber = heap[o].lineNumber
      ]_vars

\* C25: whenever no batch is running and no manual search is pending, no
\* candidate of the list has searching = true and isSearching is false; so once
\* every resolution has completed no candidate is left showing the in-progress
\* state.
C25_NoSearchingWhenIdle ==
    (batches = <<>> /\ manuals = <<>>) =>
        /\ \A i \in 1..Len(parsedAlbums) : ~heap[parsedAlbums[i]].searching
        /\ ~isSearching

\* C26: after a new image is selected or pasted, which clears the candidate
\* list and the OCR text, the list holds no candidate of a previous image: as
\* long as no extraction has completed since the selection (the OCR text is
\* still empty) the list stays empty, whatever completes late.
C26_NoCandidatesFromPreviousImage ==
    extractedText = <<>> => parsedAlbums = <<>>

\* the search requests awaiting their response
OutstandingRequests ==
    Cardinality({ b \in 1..Len(batches) : batches[b].phase = "fetch" }) + Len(manuals)

\* C27: at any moment at most one candidate is being resolved, manual searches
\* counted with the batch: at most one search request is outstanding and at
\* most one candidate of the list has searching = true.
C27_AtMostOneResolutionAtATime ==
    /\ OutstandingRequests <= 1
    /\ Cardinality({ i \in 1..Len(parsedAlbums) : heap[parsedAlbums[i]].searching }) <= 1

-----------------------------------------------------------------------------
(* Claims about the verification of search results *)

\* the results of the accepting response that the call returned
AcceptedResults ==
    IF rsPc = "done" /\ rsReturn # <<>>
    THEN LET last == rsResponses[Len(rsResponses)].albums
         IN  {last[j] : j \in {i \in 1..Len(last) : last[i].id = rsReturn[1].id}}
    ELSE {}

\* the result has an artists array with an entry, and its artist text and
\* its title keep a letter or a digit
HasArtistAndTitle(result) ==
    /\ result.artists # <<>>
    /\ result.artists[1] # <<>>
    /\ normalizeText(resultArtist(result)) # <<>>
    /\ normalizeText(resultAlbum(result)) # <<>>

\* C28: a result accepted for a candidate has a non-empty artist list and an
\* artist and a title that do not normalise to the empty string, and the
\* candidate's own artist and album do not normalise to the empty string.
C28_NoMatchOnEmptyText ==
    \A result \in AcceptedResults :
        /\ HasArtistAndTitle(result)
        /\ normalizeText(rsAlbum.artist) # <<>>
        /\ normalizeText(rsAlbum.album) # <<>>

\* a result without artists is returned for a candidate with artist and album
C28_AcceptedWithoutArtists ==
    \E result \in AcceptedResults :
        /\ result.artists = <<>>
        /\ normalizeText(rsAlbum.artist) # <<>>
        /\ normalizeText(rsAlbum.album) # <<>>

\* a result is returned for a candidate whose artist normalises to ''
C28_AcceptedForEmptyCandidate ==
    \E result \in AcceptedResults :
        /\ normalizeText(rsAlbum.artist) = <<>>
        /\ normalizeText(resultArtist(result)) # <<>>

-----------------------------------------------------------------------------
(* Claims about the tier board *)

\* the (lane, position) pairs of the board
LanePositions == {lp \in TierIds \X (1..(MaxAlbums + MaxStale)) : lp[2] <= Len(tiers[lp[1]])}

\* the pairs that hold the album with the id
PlacesOf(id) == {lp \in LanePositions : lp[2] \in idPositions(tiers[lp[1]], id)}

\* C29: after any sequence of drag-over and drag-end events, also ones
\* handled against the lanes of a stale render, every loaded album is at
\* exactly one place of the five lanes (none lost, none duplicated), no other
\* album is on the board, and the tier field of every album is the lane that
\* holds it.
C29_AlbumsConserved ==
    tierPc \in {"ready", "crashed"} =>
        /\ \A i \in 1..Len(loadedAlbums) : Cardinality(PlacesOf(loadedAlbums[i])) = 1
        /\ \A lp \in LanePositions :
              LET entry == tiers[lp[1]][lp[2]]
              IN  entry # <<>> =>
                      /\ \E i \in 1..Len(loadedAlbums) : entry[1].id = loadedAlbums[i]
                      /\ entry[1].tier = lp[1]

\* two drag-over events moved two albums out of unranked, the second one
\* handled before the lanes were rendered again
C29_Witness ==
    /\ staleEvents = 2
    /\ Len(tierView["unranked"]) = Len(loadedAlbums)
    /\ Len(tiers["unranked"]) = Len(loadedAlbums) - 2
    /\ \E k \in TierIds \ {"unranked"} : Len(tiers[k]) = 2 /\ tiers[k][1][1].tier = k

-----------------------------------------------------------------------------
(* Claims about addReview and addTierList *)

\* the rows of the call that a later read sees
VisibleRowsOfCall == {row \in txStore : row.owner = txId}

\* the rows a complete review / tier list of the call has
AllRowsOfCall ==
    {headerRow(txKind, txId)} \cup {albumRow(txKind, txId, p) : p \in 0..(txInput - 1)}

\* C30: a call in which an INSERT failed ends with the error thrown to the
\* caller (the caught error itself when ROLLBACK went through), none of its
\* rows visible to a later read and no transaction left open; a call that
\* returned has all its rows visible; and on either path the client taken
\* from the pool has been released.
C30_InsertFailureIsRolledBack ==
    txPc = "done" =>
        /\ txHeld = 0
        /\ txPending = {}
        /\ txOutcome # <<>>
        /\ txInsertFailed =>
              /\ txOutcome[1].kind = "thrown"
              /\ txConn = "alive" => txOutcome[1].error = txError[1]
              /\ VisibleRowsOfCall = {}
        /\ txOutcome[1].kind = "returned" => VisibleRowsOfCall = AllRowsOfCall

\* the second call failed on the INSERT of its second album, after its header
\* and first album were written, and the rows of the first call are in place
C30_Witness ==
    /\ txPc = "done"
    /\ txId = 2
    /\ txInsertFailed
    /\ txPos = 1
    /\ txError = << StatementError >>
    /\ txOutcome = << [kind |-> "thrown", error |-> StatementError] >>
    /\ txStore # {}

=============================================================================
